---------------------------- MODULE Spec2Model ----------------------------
(***************************************************************************)
(* A model of csdsa: the stack allocator of src/src/stalloc.c (regions,    *)
(* guard-bracketed blocks, frames) and the open-addressing hash table of   *)
(* src/src/map.c over the vector of src/src/vector.c.                      *)
(*                                                                         *)
(* Memory is modelled byte by byte.  A region is a record holding the      *)
(* name of its backing buffer (base), its size, its stack cursor as an     *)
(* offset from the base, and the bytes of the buffer.  An address is a     *)
(* pair <<base, offset>>.                                                  *)
(***************************************************************************)
EXTENDS Integers, Sequences, FiniteSets, TLC

VARIABLES
  regions,      \* stalloc.top: the chain of struct alloc, top first
  frames,       \* stalloc.frames: the array of stack_allocs counters
  frame_count,  \* stalloc.frame_count
  framed_alloc, \* the global framed_alloc: "NULL" or "a"
  status,       \* "run", "abort" (an assertion failed) or "ub"
  live,         \* history: the blocks pushed and not reclaimed, oldest first
  open_snap,    \* history: the cursors at start_frame, while only pushes follow
  max_region,   \* history: the size of the largest region ever made
  last,         \* history: the name of the last operation
  pop_at,       \* history: the place in the chain, from the top, of the
                \* region the last explicit pop took its block from
  opened,       \* history: the frames open, the start_frame calls so far
                \* less the end_frame calls that returned
  map,          \* the struct map under test (src/src/csdsa.h)
  mlast,        \* history: the last map operation and its arguments
  ever_put,     \* history: the keys ever given to map_put
  expect,       \* history: what a dictionary holds after the same operations
  vec,          \* the struct vec under test, its buffer held in place
  vlast,        \* history: the last sequence operation and its arguments
  vstatus,      \* "run", "abort" (an assertion failed) or "ub"
  bufs,         \* the buffers vec_alloc has handed out, by address
  cvec,         \* two struct vec, "src" and "dest", elements an address
  cmap,         \* two struct map, "src" and "dest", elements an address
  clast,        \* history: the last operation on cvec or cmap
  gword,        \* a guard word on its way from __stpush to _stpop
  threads,      \* the threads of test_concurrent_globals: where each is
                \* and the struct vec on its stack
  allocs        \* the stalloc each thread created

avars == <<regions, frames, frame_count, framed_alloc, status, live,
           open_snap, max_region, last, pop_at, opened>>
mvars == <<map, mlast, ever_put, expect>>
vvars == <<vec, vlast, vstatus>>
tvars == <<threads, allocs>>
nonalloc == <<map, mlast, ever_put, expect, vec, vlast, vstatus,
              bufs, cvec, cmap, clast, gword, threads, allocs>>
cvars == <<bufs, cvec, cmap, clast>>
vars == <<regions, frames, frame_count, framed_alloc, status, live,
          open_snap, max_region, last, pop_at, opened, map, mlast,
          ever_put, expect, vec, vlast, vstatus, bufs, cvec, cmap, clast,
          gword, threads, allocs>>

--------------------------------------------------------------------------
(* Bounds of the model *)

\* the larger of the two payload sizes pushed
BigPush == 8
\* a push is not taken when the charged counter has reached this
MaxCounter == 2
\* an explicit pop is taken while a block is outstanding and the charged
\* counter is above -MaxUnder
MaxUnder == 1
\* SpecAlloc, the frames at work: stalloc_create is given FrameBytes,
\* start_frame is not taken beyond frame_count FrameDepth, a push that would
\* prepend a region larger than FrameRegion is not taken, and at most
\* FrameLive blocks are outstanding
FrameBytes == 16
FrameDepth == 3
FrameRegion == 32
FrameLive == 2
\* SpecChain, the region chain at work below one frame: the same four
ChainBytes == 8
ChainDepth == 2
ChainRegion == 32
ChainLive == 2

\* the payload sizes pushed under SpecAlloc and under SpecChain
FramePushes == {1}
ChainPushes == {1, BigPush}
\* the byte a caller stores into a payload
StoreVals == {170}

--------------------------------------------------------------------------
(* Program constants *)

ALLOCATED == 0
FREE == 1
GUARD_SIZE == 4
HEADER_SIZE == GUARD_SIZE
FOOTER_SIZE == GUARD_SIZE
\* sizeof(struct alloc): four pointers and one int64_t
AllocStructSize == 40
\* 2^28: a uint32_t guard keeps the low 28 bits of the size it is given
Pow28 == 268435456

--------------------------------------------------------------------------
(* Guard words: stalloc.c lines 38-41, in uint32_t arithmetic.  A guard    *)
(* word is held as its size field (bits 4 to 31) and its low four bits.    *)

MAKE_GUARD(size, state) == [size |-> size % Pow28, low |-> state]

BLOCK_SIZE(guard) == guard.size

IS_FREE(guard) == (guard.low % 2) = 1

\* memcpy of a uint32_t into four bytes, least significant first
GuardBytes(g) ==
  << (g.size % 16) * 16 + g.low, (g.size \div 16) % 256,
     (g.size \div 4096) % 256, (g.size \div 1048576) % 256 >>

\* *(uint32_t *)p for the four bytes of mem at offset off
ReadGuard(mem, off) ==
  [ size |-> (mem[off + 1] \div 16) + 16 * mem[off + 2] + 4096 * mem[off + 3]
               + 1048576 * mem[off + 4],
    low |-> mem[off + 1] % 16 ]

--------------------------------------------------------------------------
(* Regions *)

\* the name calloc gives a new buffer: one not held by a region in use
NewBase(regs) ==
  CHOOSE b \in 0..Len(regs) : \A i \in 1..Len(regs) : regs[i].base # b

alloc_make(base, region_size) ==
  [ base |-> base,
    region_size |-> region_size,
    stack_ptr |-> 0,
    heap_div_ptr |-> region_size,
    mem |-> [i \in 1..(region_size + HEADER_SIZE + FOOTER_SIZE) |-> 0] ]

RECURSIVE GrowTo(_, _)
GrowTo(next_size, bytes) ==
  IF next_size < bytes * 2 THEN GrowTo(next_size * 2, bytes) ELSE next_size

\* an append_new_alloc that takes the larger of the two doubles
NextSizeLarger(regs, bytes) ==
  IF regs[1].region_size * 2 > bytes * 2 THEN regs[1].region_size * 2
  ELSE bytes * 2

\* the size append_new_alloc gives the region it prepends
NextSize(regs, bytes) == GrowTo(regs[1].region_size * 2, bytes)

append_new_alloc(regs, bytes) ==
  << alloc_make(NewBase(regs), NextSize(regs, bytes)) >> \o regs

\* whether __stpush finds no room in the top region
NeedsRegion(regs, bytes) ==
  regs[1].stack_ptr + bytes + HEADER_SIZE + FOOTER_SIZE > regs[1].heap_div_ptr

\* a __stpush that leaves the payload as it finds it (no memset)
WriteBlockUnzeroed(mem, sp, bytes) ==
  LET g == GuardBytes(MAKE_GUARD(bytes + HEADER_SIZE + FOOTER_SIZE, ALLOCATED))
  IN  [i \in 1..Len(mem) |->
         IF i > sp /\ i <= sp + HEADER_SIZE THEN g[i - sp]
         ELSE IF i > sp + HEADER_SIZE + bytes
                 /\ i <= sp + HEADER_SIZE + bytes + FOOTER_SIZE
              THEN g[i - sp - HEADER_SIZE - bytes]
         ELSE mem[i]]

\* the bytes of a region after a block of `bytes` payload is written at sp
WriteBlock(mem, sp, bytes) ==
  LET g == GuardBytes(MAKE_GUARD(bytes + HEADER_SIZE + FOOTER_SIZE, ALLOCATED))
  IN  [i \in 1..Len(mem) |->
         IF i > sp /\ i <= sp + HEADER_SIZE THEN g[i - sp]
         ELSE IF i > sp + HEADER_SIZE /\ i <= sp + HEADER_SIZE + bytes THEN 0
         ELSE IF i > sp + HEADER_SIZE + bytes
                 /\ i <= sp + HEADER_SIZE + bytes + FOOTER_SIZE
              THEN g[i - sp - HEADER_SIZE - bytes]
         ELSE mem[i]]

\* a __stpush that writes its block at the base of the region it uses
PushRegionsAtBase(regs, bytes) ==
  LET rs == IF NeedsRegion(regs, bytes) THEN append_new_alloc(regs, bytes)
            ELSE regs
      t == rs[1]
  IN  [rs EXCEPT ![1] =
         [t EXCEPT !.mem = WriteBlock(t.mem, 0, bytes),
                   !.stack_ptr = t.stack_ptr + HEADER_SIZE + bytes + FOOTER_SIZE]]

\* the chain after __stpush(a, bytes), the frame counter apart
PushRegions(regs, bytes) ==
  LET rs == IF NeedsRegion(regs, bytes) THEN append_new_alloc(regs, bytes)
            ELSE regs
      t == rs[1]
  IN  [rs EXCEPT ![1] =
         [t EXCEPT !.mem = WriteBlock(t.mem, t.stack_ptr, bytes),
                   !.stack_ptr = t.stack_ptr + HEADER_SIZE + bytes + FOOTER_SIZE]]

\* the address __stpush returns: the cursor of the region it uses, which is
\* the new region when one is prepended, plus the header
PushReturn(regs, bytes) ==
  LET rs == IF NeedsRegion(regs, bytes) THEN append_new_alloc(regs, bytes)
            ELSE regs
  IN  << rs[1].base, rs[1].stack_ptr + HEADER_SIZE >>

\* attempt_alloc_merge: the top pair, when both are empty, becomes one region
MergeFires(regs) ==
  /\ Len(regs) >= 2
  /\ regs[1].stack_ptr = 0
  /\ regs[2].stack_ptr = 0

attempt_alloc_merge(regs) ==
  IF MergeFires(regs)
  THEN << alloc_make(NewBase(regs),
                     regs[1].region_size + regs[2].region_size) >>
       \o SubSeq(regs, 3, Len(regs))
  ELSE regs

\* a _stpop that takes the non-empty region nearest the bottom of the chain
LowestNonEmpty(regs, i) ==
  LET holding == { j \in i..Len(regs) : regs[j].stack_ptr # 0 }
  IN  IF holding = {} THEN 0
      ELSE CHOOSE j \in holding : \A k \in holding : k <= j

\* the index of the first region, from the top, that holds a block; 0 if none
RECURSIVE FirstNonEmpty(_, _)
FirstNonEmpty(regs, i) ==
  IF i > Len(regs) THEN 0
  ELSE IF regs[i].stack_ptr # 0 THEN i
  ELSE FirstNonEmpty(regs, i + 1)

\* the footer read behind the cursor of region i
FooterOf(regs, i) == ReadGuard(regs[i].mem, regs[i].stack_ptr - HEADER_SIZE)

\* one round of the loop of _stpop that finds a block: the cursor moves down
PopBlock(regs, i) ==
  [regs EXCEPT ![i].stack_ptr = @ - BLOCK_SIZE(FooterOf(regs, i))]

\* _stpop(a, to_pop).  The result records the chain, whether the assertion
\* on the free bit failed, and whether a merge wrote a struct alloc into a
\* buffer smaller than the struct (calloc(1, sum of the region sizes)).
RECURSIVE StPopLoop(_, _)
StPopLoop(st, to_pop) ==
  IF to_pop <= 0 \/ st.assert_failed THEN st
  ELSE LET i == FirstNonEmpty(st.regs, 1)
       IN  IF i = 0 THEN st
           ELSE IF IS_FREE(FooterOf(st.regs, i))
                THEN [st EXCEPT !.assert_failed = TRUE]
           ELSE LET popped == PopBlock(st.regs, i)
                    merged == attempt_alloc_merge(popped)
                    small == MergeFires(popped)
                             /\ popped[1].region_size + popped[2].region_size
                                  < AllocStructSize
                    biggest == IF MergeFires(popped)
                                  /\ merged[1].region_size > st.biggest
                               THEN merged[1].region_size
                               ELSE st.biggest
                IN  StPopLoop([regs |-> merged,
                               assert_failed |-> FALSE,
                               small_merge |-> st.small_merge \/ small,
                               biggest |-> biggest,
                               popped |-> st.popped + 1],
                              to_pop - 1)

_stpop(regs, to_pop) ==
  StPopLoop([regs |-> regs, assert_failed |-> FALSE, small_merge |-> FALSE,
             biggest |-> 0, popped |-> 0], to_pop)

--------------------------------------------------------------------------
(* Frames *)

RECURSIVE DoubleTo(_, _)
DoubleTo(new_len, count) ==
  IF new_len < count THEN DoubleTo(new_len * 2, count) ELSE new_len

\* frame_count after start_frame: the first call counts twice (lines 174-181)
StartCount(fs, fc) == IF Len(fs) = 0 THEN fc + 2 ELSE fc + 1

\* the frames array after start_frame: recalloc zeroes the whole array when
\* it grows, and an array that need not grow is left as it is
StartFrames(fs, fc) ==
  LET len == IF Len(fs) = 0 THEN 1 ELSE Len(fs)
      first == IF Len(fs) = 0 THEN << 0 >> ELSE fs
      new_len == DoubleTo(len, StartCount(fs, fc))
  IN  IF new_len = len THEN first ELSE [i \in 1..new_len |-> 0]

\* frames[frame_count - 1].stack_allocs, the counter pushes and pops charge
TopCounter == frames[frame_count]

--------------------------------------------------------------------------
(* History *)

\* the cursors of the regions that hold a block, by buffer
Cursors(regs) ==
  { << regs[i].base, regs[i].stack_ptr >> :
      i \in { j \in 1..Len(regs) : regs[j].stack_ptr # 0 } }

\* block b lies wholly below the cursor of the region it was pushed into
Outstanding(regs, b) ==
  \E i \in 1..Len(regs) :
    /\ regs[i].base = b.base
    /\ b.off + b.n + FOOTER_SIZE <= regs[i].stack_ptr

StillLive(regs, blocks) == SelectSeq(blocks, LAMBDA b : Outstanding(regs, b))

NoSnap == [valid |-> FALSE, cur |-> {}]

Max(a, b) == IF a > b THEN a ELSE b

--------------------------------------------------------------------------
(* The allocator's operations *)

\* stalloc_create(bytes); the table of the map part is left aside
AllocInit(bytes) ==
  /\ regions = << alloc_make(0, bytes) >>
  /\ max_region = bytes
  /\ frames = << >>
  /\ frame_count = 0
  /\ framed_alloc = "NULL"
  /\ status = "run"
  /\ live = << >>
  /\ open_snap = NoSnap
  /\ last = "create"
  /\ pop_at = 0
  /\ opened = 0

\* start_frame(alloc); with global, the GFRAME macro's framed_alloc = alloc
StartFrame(global, depth) ==
  /\ status = "run"
  /\ StartCount(frames, frame_count) <= depth
  /\ frames' = StartFrames(frames, frame_count)
  /\ frame_count' = StartCount(frames, frame_count)
  /\ framed_alloc' = IF global THEN "a" ELSE framed_alloc
  /\ open_snap' = [valid |-> TRUE, cur |-> Cursors(regions)]
  /\ last' = "start_frame"
  /\ pop_at' = 0
  /\ opened' = opened + 1
  /\ UNCHANGED <<regions, status, live, max_region>>

\* what a call of _stpop leaves behind, whoever called it
AfterPop(res) ==
  /\ regions' = res.regs
  /\ live' = StillLive(res.regs, live)
  /\ max_region' = Max(max_region, res.biggest)
  /\ \E s \in (IF res.assert_failed THEN {"abort"}
               ELSE IF res.small_merge THEN {"run", "ub"} ELSE {"run"}) :
       status' = s

\* end_frame(alloc)
EndFrame ==
  /\ status = "run"
  /\ IF framed_alloc = "NULL" \/ frame_count <= 0
     THEN /\ status' = "abort"
          /\ last' = "end_frame"
          /\ pop_at' = 0
          /\ UNCHANGED <<regions, frames, frame_count, framed_alloc, live,
                         open_snap, max_region, opened>>
     ELSE LET res == _stpop(regions, TopCounter)
          IN  /\ AfterPop(res)
              /\ frame_count' = frame_count - 1
              /\ last' = "end_frame"
              /\ pop_at' = 0
              /\ open_snap' = NoSnap
              /\ opened' = opened - 1
              /\ UNCHANGED <<frames, framed_alloc>>

\* __stpush(a, bytes), and __stpushframe(bytes) when framed is set
StPush(bytes, framed, region_cap, live_cap) ==
  /\ status = "run"
  /\ IF (framed /\ framed_alloc = "NULL") \/ frame_count <= 0
     THEN \* a store through a null allocator or into frames[-1]
          /\ status' = "ub"
          /\ last' = "push"
          /\ pop_at' = 0
          /\ UNCHANGED <<regions, frames, frame_count, framed_alloc, live,
                         open_snap, max_region, opened>>
     ELSE /\ Len(live) < live_cap
          /\ TopCounter < MaxCounter
          /\ NeedsRegion(regions, bytes)
               => NextSize(regions, bytes) <= region_cap
          /\ LET rs == PushRegions(regions, bytes)
                 addr == PushReturn(regions, bytes)
             IN  /\ regions' = rs
                 /\ live' = Append(live, [base |-> addr[1], off |-> addr[2],
                                          n |-> bytes, frame |-> frame_count])
                 /\ max_region' = Max(max_region, rs[1].region_size)
                 /\ last' = "push"
                 /\ pop_at' = 0
          /\ frames' = [frames EXCEPT ![frame_count] = @ + 1]
          /\ UNCHANGED <<frame_count, framed_alloc, status, open_snap,
                         opened>>

\* __stpop(a), the stpopa macro
StPopA ==
  /\ status = "run"
  /\ IF frame_count <= 0
     THEN /\ status' = "ub"
          /\ last' = "stpopa"
          /\ pop_at' = 0
          /\ UNCHANGED <<regions, frames, frame_count, framed_alloc, live,
                         open_snap, max_region, opened>>
     ELSE /\ TopCounter > -MaxUnder
          /\ Len(live) > 0
          /\ LET res == _stpop(regions, 1)
             IN  /\ AfterPop(res)
                 /\ last' = "stpopa"
                 /\ pop_at' = FirstNonEmpty(regions, 1)
          /\ frames' = [frames EXCEPT ![frame_count] = @ - 1]
          /\ open_snap' = NoSnap
          /\ UNCHANGED <<frame_count, framed_alloc, opened>>

\* __stpopframe(), the stpop macro
StPopFrame ==
  /\ status = "run"
  /\ IF framed_alloc = "NULL" \/ frame_count <= 0
     THEN /\ status' = "ub"
          /\ last' = "stpop"
          /\ pop_at' = 0
          /\ UNCHANGED <<regions, frames, frame_count, framed_alloc, live,
                         open_snap, max_region, opened>>
     ELSE /\ LET res == _stpop(regions, TopCounter)
             IN  /\ AfterPop(res)
                 /\ last' = "stpop"
                 /\ pop_at' = 0
          /\ open_snap' = NoSnap
          /\ UNCHANGED <<frames, frame_count, framed_alloc, opened>>

\* the caller stores byte v at the start of the payload of block b
StoreRegions(regs, b, v) ==
  [i \in 1..Len(regs) |->
     IF regs[i].base = b.base
     THEN [regs[i] EXCEPT !.mem[b.off + 1] = v]
     ELSE regs[i]]

\* the caller fills in the block it was handed last, as in *x = 1
Store(v) ==
  /\ status = "run"
  /\ Len(live) > 0
  /\ regions' = StoreRegions(regions, live[Len(live)], v)
  /\ regions' # regions
  /\ last' = "store"
  /\ pop_at' = 0
  /\ UNCHANGED <<frames, frame_count, framed_alloc, status, live, open_snap,
                 max_region, opened>>

--------------------------------------------------------------------------
(* The specification of the allocator: the table is left aside *)

MapIdle ==
  /\ map = << >>
  /\ mlast = "none"
  /\ ever_put = {}
  /\ expect = << >>

VecIdle ==
  /\ vec = << >>
  /\ vlast = "none"
  /\ vstatus = "run"

CopyIdle ==
  /\ bufs = << >>
  /\ cvec = << >>
  /\ cmap = << >>
  /\ clast = "none"

GuardIdle == gword = << >>

ThreadsIdle == threads = << >> /\ allocs = << >>

OpenFrame == StartFrame(FALSE, FrameDepth) /\ UNCHANGED nonalloc

OpenGlobalFrame == StartFrame(TRUE, FrameDepth) /\ UNCHANGED nonalloc

CloseFrame == EndFrame /\ UNCHANGED nonalloc

Push ==
  \E bytes \in FramePushes :
    StPush(bytes, FALSE, FrameRegion, FrameLive) /\ UNCHANGED nonalloc

PushFramed ==
  \E bytes \in FramePushes :
    StPush(bytes, TRUE, FrameRegion, FrameLive) /\ UNCHANGED nonalloc

Pop == StPopA /\ UNCHANGED nonalloc

PopFramed == StPopFrame /\ UNCHANGED nonalloc

StorePayload == \E v \in StoreVals : Store(v) /\ UNCHANGED nonalloc

AllocNext ==
  \/ OpenFrame
  \/ OpenGlobalFrame
  \/ CloseFrame
  \/ Push
  \/ PushFramed
  \/ Pop
  \/ PopFramed
  \/ StorePayload

FrameInit ==
  /\ AllocInit(FrameBytes)
  /\ MapIdle /\ VecIdle /\ CopyIdle /\ GuardIdle /\ ThreadsIdle

SpecAlloc == FrameInit /\ [][AllocNext]_vars

--------------------------------------------------------------------------
(* The specification of the region chain: the same operations below one   *)
(* frame, with room for three regions                                     *)

ChainOpenFrame == StartFrame(FALSE, ChainDepth) /\ UNCHANGED nonalloc

ChainOpenGlobalFrame == StartFrame(TRUE, ChainDepth) /\ UNCHANGED nonalloc

ChainPush ==
  \E bytes \in ChainPushes :
    StPush(bytes, FALSE, ChainRegion, ChainLive) /\ UNCHANGED nonalloc

ChainPushFramed ==
  \E bytes \in ChainPushes :
    StPush(bytes, TRUE, ChainRegion, ChainLive) /\ UNCHANGED nonalloc

ChainNext ==
  \/ ChainOpenFrame
  \/ ChainOpenGlobalFrame
  \/ CloseFrame
  \/ ChainPush
  \/ ChainPushFramed
  \/ Pop
  \/ PopFramed
  \/ StorePayload

ChainInit ==
  /\ AllocInit(ChainBytes)
  /\ MapIdle /\ VecIdle /\ CopyIdle /\ GuardIdle /\ ThreadsIdle

SpecChain == ChainInit /\ [][ChainNext]_vars

--------------------------------------------------------------------------
(* Bounds of the table model *)

\* the initial_size values given to __map_init
SmallMap == 1
RoomyMap == 4
MapSizes == {SmallMap, RoomyMap}
\* a put whose rehash would make more than MaxCap slots is not taken
MaxCap == 8
\* map_clear is not taken once in_use_id has reached MaxGen
MaxGen == 3

\* keys of __key_size 2, as bytes: the second collides with the first at
\* every capacity up to 8, and all three share the last slot of 2 slots
Keys == { << 0, 0 >>, << 0, 8 >>, << 0, 2 >> }
\* values of __el_size 1
Vals == {1, 2}

--------------------------------------------------------------------------
(* The hash table of src/src/map.c over the sequence of src/src/vector.c  *)

TO_STACK == 0
TO_HEAP == 1
\* a null pointer, as map_get's kv.key on a miss
NULL == << >>

\* hash_bytes: djb2 over the key's bytes (below 2^64 for two bytes)
RECURSIVE HashFrom(_, _, _)
HashFrom(hash, bytes, i) ==
  IF i > Len(bytes) THEN hash
  ELSE HashFrom(((hash * 32) + hash) + bytes[i], bytes, i + 1)

hash_bytes(bytes) == HashFrom(5381, bytes, 1)

\* a slot of a zeroed buffer: key, value and state bytes all 0
ZeroSlot == [key |-> << 0, 0 >>, value |-> 0, state |-> 0]

\* element sizes in bytes: a slot of the table is key, value and state
\* (key_size + el_size + sizeof(in_use_id)); a plain element is an int
SlotBytes == 7
IntBytes == 4

\* a zeroed element of el_size bytes
ZeroEl(el_size) == IF el_size = SlotBytes THEN ZeroSlot ELSE 0

\* vec_construct: an empty sequence of capacity 1
vec_construct == [length |-> 0, __top |-> 0, __size |-> 1]

\* __vec_init: the constructed sequence over a zeroed buffer of its capacity
\* (vec_alloc returns zeroed bytes from either placement)
__vec_init(el_size) ==
  [ length |-> vec_construct.length,
    __top |-> vec_construct.__top,
    __size |-> vec_construct.__size,
    __el_size |-> el_size,
    elements |-> [i \in 1..vec_construct.__size |-> ZeroEl(el_size)] ]

RECURSIVE DoublePast(_, _)
DoublePast(cap, size) ==
  IF size >= cap THEN DoublePast(cap * 2, size) ELSE cap

\* vec_resize(v, size)
vec_resize(v, size) ==
  IF size < v.__size THEN [v EXCEPT !.length = size]
  ELSE LET cap == DoublePast(v.__size, size)
       IN  [v EXCEPT !.length = size,
                     !.__size = cap,
                     !.elements = [i \in 1..cap |->
                                     IF i <= v.__size THEN v.elements[i]
                                     ELSE ZeroEl(v.__el_size)]]

\* vec_clear(v)
vec_clear(v) ==
  [v EXCEPT !.length = 0, !.__top = 0,
            !.elements = [i \in 1..v.__size |-> ZeroEl(v.__el_size)]]

\* __map_init(m, el_size, key_size, alloc, flags, initial_size)
__map_init(flags, initial_size) ==
  [ slots_in_use |-> 0,
    flags |-> flags,
    in_use_id |-> 1,
    __size |-> initial_size,
    failed |-> FALSE,
    elements |-> vec_resize(__vec_init(SlotBytes), initial_size) ]

\* a map_clear that only resets the count of slots in use
MapClearCountOnly(m) == [m EXCEPT !.slots_in_use = 0]

\* map_clear(m)
map_clear(m) ==
  [m EXCEPT !.in_use_id = m.in_use_id + 1,
            !.slots_in_use = 0,
            !.elements = vec_resize(vec_clear(m.elements), m.__size)]

\* the slot vec_at(&m->elements, idx) points to
SlotAt(m, idx) == m.elements.elements[idx + 1]

\* key_pos without its second loop: the probe ends at the last slot
RECURSIVE ProbeToEnd(_, _, _, _)
ProbeToEnd(m, key, start, n) ==
  IF start + n >= m.elements.length THEN -1
  ELSE LET idx == start + n
       IN  IF SlotAt(m, idx).state = m.in_use_id /\ SlotAt(m, idx).key = key
           THEN idx
           ELSE ProbeToEnd(m, key, start, n + 1)

\* the two loops of key_pos: from start_idx to the end, then from 0 to
\* start_idx, passing over every slot that is not in use
RECURSIVE Probe(_, _, _, _)
Probe(m, key, start, n) ==
  IF n >= m.elements.length THEN -1
  ELSE LET idx == (start + n) % m.elements.length
       IN  IF SlotAt(m, idx).state = m.in_use_id /\ SlotAt(m, idx).key = key
           THEN idx
           ELSE Probe(m, key, start, n + 1)

KeyPosNoWrap(m, key) ==
  ProbeToEnd(m, key, hash_bytes(key) % m.elements.length, 0)

key_pos(m, key) == Probe(m, key, hash_bytes(key) % m.elements.length, 0)

\* the two loops of linear_search_open_pos; -1 where its assertion fails
RECURSIVE OpenFrom(_, _, _)
OpenFrom(m, from, n) ==
  IF n >= m.elements.length THEN -1
  ELSE LET idx == (from + n) % m.elements.length
       IN  IF SlotAt(m, idx).state # m.in_use_id THEN idx
           ELSE OpenFrom(m, from, n + 1)

\* a linear_search_open_pos without its second loop, from 0 to from
OpenPosNoWrap(m, from) ==
  LET open == { idx \in from..(m.elements.length - 1) :
                  SlotAt(m, idx).state # m.in_use_id }
  IN  IF open = {} THEN -1
      ELSE CHOOSE idx \in open : \A other \in open : idx <= other

linear_search_open_pos(m, from) == OpenFrom(m, from, 0)

\* map_get(m, key): the kvpair, `at` standing for where its pointers lead
map_get(m, key) ==
  LET idx == key_pos(m, key)
  IN  IF idx = -1 THEN [key |-> NULL, value |-> 0, state |-> 0, at |-> -1]
      ELSE IF SlotAt(m, idx).state # m.in_use_id
           THEN [key |-> NULL, value |-> 0, state |-> 0, at |-> -1]
      ELSE [key |-> SlotAt(m, idx).key, value |-> SlotAt(m, idx).value,
            state |-> SlotAt(m, idx).state, at |-> idx]

map_has(m, key) == map_get(m, key).key # NULL

map_load(m) == m.slots_in_use

\* a map_del that clears the slot and leaves slots_in_use as it is
MapDelKeepsLoad(m, key) ==
  LET kv == map_get(m, key)
  IN  IF kv.key = NULL THEN m
      ELSE [m EXCEPT !.elements.elements[kv.at + 1].state = 0]

\* map_del(m, key)
map_del(m, key) ==
  LET kv == map_get(m, key)
  IN  IF kv.key = NULL THEN m
      ELSE [m EXCEPT !.elements.elements[kv.at + 1].state = 0,
                     !.slots_in_use = m.slots_in_use - 1]

\* the load-factor test of maintain_load_factor: (float)U / C >= 0.75,
\* exact for counts this small
NeedsRehash(m) == 4 * m.slots_in_use >= 3 * m.__size

RECURSIVE map_put(_, _, _)
RECURSIVE maintain_load_factor(_)

\* the reinsertion loop of maintain_load_factor from slot i on
RECURSIVE Reinsert(_, _, _)
Reinsert(old, new, i) ==
  IF i >= old.elements.length THEN new
  ELSE IF SlotAt(old, i).state # old.in_use_id THEN Reinsert(old, new, i + 1)
  ELSE Reinsert(old, map_put(new, SlotAt(old, i).key, SlotAt(old, i).value),
                i + 1)

\* a reinsertion loop that starts at slot 1
ReinsertAfterFirst(old, new) == Reinsert(old, new, 1)

ReinsertAll(old, new) == Reinsert(old, new, 0)

maintain_load_factor(m) ==
  IF ~NeedsRehash(m) THEN m
  ELSE ReinsertAll(m, map_clear(__map_init(m.flags, m.__size * 2)))

\* a map_put that leaves an entry of the same key where it is
MapPutKeepsOld(m, key, value) ==
  LET m1 == maintain_load_factor(m)
      pos == linear_search_open_pos(m1,
               hash_bytes(key) % m1.elements.length)
  IN  IF pos = -1 THEN [m1 EXCEPT !.failed = TRUE]
      ELSE [m1 EXCEPT !.elements.elements[pos + 1] =
                        [key |-> key, value |-> value,
                         state |-> m1.in_use_id],
                      !.slots_in_use = m1.slots_in_use + 1]

map_put(m, key, value) ==
  LET m1 == maintain_load_factor(m)
      m2 == IF map_has(m1, key) THEN map_del(m1, key) ELSE m1
      pos == linear_search_open_pos(m2,
               hash_bytes(key) % m2.elements.length)
  IN  IF pos = -1 THEN [m2 EXCEPT !.failed = TRUE]
      ELSE [m2 EXCEPT !.elements.elements[pos + 1] =
                        [key |-> key, value |-> value,
                         state |-> m2.in_use_id],
                      !.slots_in_use = m2.slots_in_use + 1]

\* the predicates given to map_find_one: on the value of the pair; the
\* one for 0 holds of no entry, the values put being 1 and 2
ValuePreds == { [val \in Vals |-> val = w] : w \in Vals \cup {0} }

\* the loop of map_find_one from slot i on; kv is the pair read last
RECURSIVE FindFrom(_, _, _, _)
FindFrom(m, p, kv, i) ==
  IF i >= m.elements.length THEN kv
  ELSE IF SlotAt(m, i).state # m.in_use_id THEN FindFrom(m, p, kv, i + 1)
  ELSE LET read == [key |-> SlotAt(m, i).key, value |-> SlotAt(m, i).value,
                    state |-> SlotAt(m, i).state, at |-> i]
       IN  IF p[read.value] THEN read ELSE FindFrom(m, p, read, i + 1)

\* map_find_one(m, p, args)
map_find_one(m, p) ==
  FindFrom(m, p, [key |-> NULL, value |-> 0, state |-> 0, at |-> -1], 0)

--------------------------------------------------------------------------
(* The table's operations and its specification: the allocator is left    *)
(* aside, the table's buffers being heap-placed                           *)

\* the record of an operation: its name and arguments, whether it rehashed,
\* and whether the operation before it was a put of the same key
NoOp == [op |-> "init", key |-> NULL, value |-> 0, rehash |-> FALSE,
         follows_put |-> FALSE]

Did(op, key, value, rehash) ==
  [op |-> op, key |-> key, value |-> value, rehash |-> rehash,
   follows_put |-> (mlast.op = "put" /\ mlast.key = key)]

\* the dictionary after key is bound to value
Bind(d, key, value) ==
  [k \in (DOMAIN d) \cup {key} |-> IF k = key THEN value ELSE d[k]]

\* the dictionary without key
Unbind(d, key) == [k \in (DOMAIN d) \ {key} |-> d[k]]

MapInit ==
  /\ AllocInit(FrameBytes)
  /\ \E initial_size \in MapSizes :
       map = __map_init(TO_HEAP, initial_size)
  /\ mlast = NoOp
  /\ ever_put = {}
  /\ expect = << >>
  /\ VecIdle
  /\ CopyIdle
  /\ GuardIdle
  /\ ThreadsIdle

\* map_put(m, key, value)
MapPut ==
  \E key \in Keys, value \in Vals :
    /\ ~map.failed
    /\ NeedsRehash(map) => 2 * map.__size <= MaxCap
    /\ map' = map_put(map, key, value)
    /\ mlast' = Did("put", key, value, NeedsRehash(map))
    /\ ever_put' = ever_put \cup {key}
    /\ expect' = Bind(expect, key, value)
    /\ UNCHANGED <<avars, vvars, cvars, gword, tvars>>

\* map_del(m, key)
MapDel ==
  \E key \in Keys :
    /\ ~map.failed
    /\ map' = map_del(map, key)
    /\ mlast' = Did("del", key, 0, FALSE)
    /\ expect' = Unbind(expect, key)
    /\ UNCHANGED <<ever_put, avars, vvars, cvars, gword, tvars>>

\* map_clear(m); the history keeps the load before it as value
MapClear ==
  /\ ~map.failed
  /\ map.in_use_id < MaxGen
  /\ map' = map_clear(map)
  /\ mlast' = Did("clear", NULL, map_load(map), FALSE)
  /\ expect' = << >>
  /\ UNCHANGED <<ever_put, avars, vvars, cvars, gword, tvars>>

\* map_find_one(m, p, args); the history keeps the predicate and the pair
\* returned
MapFindOne ==
  \E p \in ValuePreds :
    /\ ~map.failed
    /\ mlast' = [op |-> "find_one", key |-> map_find_one(map, p).key,
                 value |-> map_find_one(map, p).value, rehash |-> FALSE,
                 follows_put |-> FALSE, p |-> p]
    /\ UNCHANGED <<map, ever_put, expect, avars, vvars, cvars, gword, tvars>>

MapNext ==
  \/ MapPut
  \/ MapDel
  \/ MapClear
  \/ MapFindOne

SpecMap == MapInit /\ [][MapNext]_vars

--------------------------------------------------------------------------
(* Properties of the allocator *)

\* the payload bytes of block b as the chain regs holds them
PayloadOf(regs, b) ==
  LET i == CHOOSE j \in 1..Len(regs) : regs[j].base = b.base
  IN  [k \in 1..b.n |-> regs[i].mem[b.off + k]]

\* the sum of the counters of the frame records in use
RECURSIVE CounterSum(_, _)
CounterSum(fs, count) ==
  IF count <= 0 THEN 0 ELSE fs[count] + CounterSum(fs, count - 1)

AllAtBase(regs) == \A i \in 1..Len(regs) : regs[i].stack_ptr = 0

\* C1: a start_frame, pushes only, and the end_frame that closes the frame
\* leave every region's stack cursor where it was before the start_frame.
C1_FrameRestoresCursors ==
  [][ (last' = "end_frame" /\ status' = "run" /\ open_snap.valid)
        => Cursors(regions') = open_snap.cur ]_vars

\* C2: closing a frame reclaims only blocks pushed in that frame: a block
\* charged to an outer frame is still outstanding afterwards, its payload
\* unchanged.
C2_FrameReclaimsOwnBlocksOnly ==
  [][ (last' = "end_frame" /\ status' = "run")
        => \A i \in 1..Len(live) :
             live[i].frame < frame_count
               => /\ Outstanding(regions', live[i])
                  /\ PayloadOf(regions', live[i]) = PayloadOf(regions, live[i])
    ]_vars

\* C3: a single pop reclaims exactly the most recently pushed outstanding
\* block; it lies in the first non-empty region from the top, whose cursor
\* goes down by the total size in the block's footer (payload + 8), and no
\* other region's cursor changes.
C3_PopIsLifo ==
  [][ (last' = "stpopa" /\ frame_count > 0 /\ Len(live) > 0)
        => LET b == live[Len(live)]
               holding == { j \in 1..Len(regions) : regions[j].stack_ptr # 0 }
               i == CHOOSE j \in holding : \A k \in holding : j <= k
               sp == regions[i].stack_ptr
               total == ReadGuard(regions[i].mem, sp - FOOTER_SIZE).size
           IN  /\ holding # {}
               /\ regions[i].base = b.base
               /\ sp = b.off + b.n + FOOTER_SIZE
               /\ total = b.n + 8
               /\ live' = SubSeq(live, 1, Len(live) - 1)
               /\ Cursors(regions')
                    = (Cursors(regions) \ { << b.base, sp >> })
                        \cup (IF sp - total > 0
                              THEN { << b.base, sp - total >> } ELSE {})
    ]_vars

\* C3 witness: a pop has just taken its block from a region below the top,
\* the regions above it being empty.
C3_Witness ==
  /\ last = "stpopa"
  /\ status = "run"
  /\ pop_at > 1

\* C4: a push of n bytes with a frame open returns cursor_before + 4 in the
\* top region, its n payload bytes are zero, header and footer hold the same
\* guard word for total size n + 8 in the allocated state, and the top
\* region's cursor has advanced by n + 8.
C4_PushWritesBlock ==
  [][ (last' = "push" /\ frame_count > 0 /\ status' = "run")
        => LET b == live'[Len(live')]
               t == regions'[1]
               before == IF t.base = regions[1].base
                         THEN regions[1].stack_ptr ELSE 0
               guard == [size |-> b.n + 8, low |-> ALLOCATED]
           IN  /\ Len(live') = Len(live) + 1
               /\ b.base = t.base
               /\ b.off = before + 4
               /\ \A k \in 1..b.n : t.mem[b.off + k] = 0
               /\ ReadGuard(t.mem, before) = guard
               /\ ReadGuard(t.mem, before + 4 + b.n) = guard
               /\ t.stack_ptr = before + b.n + 8
    ]_vars

\* C4 witness: a push has just been placed in a region that held blocks
\* before: bytes of a popped block lie above the cursor.
C4_Witness ==
  /\ last = "push"
  /\ status = "run"
  /\ Len(live) > 0
  /\ live[Len(live)].n = BigPush
  /\ \E k \in (regions[1].stack_ptr + 1)..Len(regions[1].mem) :
       regions[1].mem[k] # 0

\* C5: once every pushed block has been popped again, every region is empty
\* and the chain is one region of the size of the largest region ever made.
C5_MatchedPopsLeaveOneRegion ==
  (last = "stpopa" /\ status = "run" /\ Len(live) = 0)
    => /\ AllAtBase(regions)
       /\ Len(regions) = 1
       /\ regions[1].region_size = max_region

\* C6: the counters of the frames in use add up to the number of
\* outstanding blocks.
C6_CountersMatchBlocks ==
  status = "run" => CounterSum(frames, frame_count) = Len(live)

--------------------------------------------------------------------------
(* Properties of the hash table *)

\* the keys map_has finds
Present(m) == { k \in Keys : map_has(m, k) }

\* the slots in use that hold key
SlotsOf(m, key) ==
  { i \in 0..(m.elements.length - 1) :
      SlotAt(m, i).state = m.in_use_id /\ SlotAt(m, i).key = key }

\* C7: after put(K, V), whatever came before and also when this put
\* rehashes, get(K) returns a non-null key and the value V; get of a key
\* never given to put returns a null key.
C7_GetAfterPut ==
  [][ /\ mlast'.op = "put"
        => /\ map_get(map', mlast'.key).key = mlast'.key
           /\ map_get(map', mlast'.key).key # NULL
           /\ map_get(map', mlast'.key).value = mlast'.value
      /\ \A k \in Keys \ ever_put' : map_get(map', k).key = NULL
    ]_vars

\* C7 witness: a put has just rehashed a table after a clear; one key it
\* held is gone and one key was never put.
C7_Witness ==
  /\ mlast.op = "put"
  /\ mlast.rehash
  /\ map.in_use_id = 2
  /\ ever_put \ Present(map) # {}
  /\ Keys \ ever_put # {}

\* C8: delete(K) right after put(K, V) leaves has(K) false and the load one
\* less than after the put; a later put(K, V2) makes K present with V2.
C8_DeleteAfterPut ==
  [][ /\ (mlast'.op = "del" /\ mlast.op = "put" /\ mlast'.key = mlast.key)
        => /\ ~map_has(map', mlast'.key)
           /\ map_load(map') = map_load(map) - 1
      /\ (mlast'.op = "put" /\ mlast'.key \in ever_put
            /\ ~map_has(map, mlast'.key))
        => /\ map_has(map', mlast'.key)
           /\ map_get(map', mlast'.key).value = mlast'.value
    ]_vars

\* C8 witness: a key has been deleted right after it was put, by a put
\* that rehashed, and other keys remain.
C8_Witness ==
  /\ mlast.op = "del"
  /\ mlast.follows_put
  /\ ~map_has(map, mlast.key)
  /\ map_load(map) > 1
  /\ map.__size = MaxCap

\* C9: a put of a key that is present leaves the load as it is, a put of an
\* absent key raises it by one, and either leaves one slot holding the key,
\* with the value of this put.
C9_PutOverwrites ==
  [][ mlast'.op = "put"
        => /\ map_load(map') = map_load(map)
                                 + (IF map_has(map, mlast'.key) THEN 0 ELSE 1)
           /\ Present(map) \subseteq {mlast'.key} => map_load(map') = 1
           /\ Cardinality(SlotsOf(map', mlast'.key)) = 1
           /\ map_get(map', mlast'.key).value = mlast'.value
    ]_vars

\* C9 witness: the same key has been put twice in a row, the second put
\* rehashing, and the load is 1.
C9_Witness ==
  /\ mlast.op = "put"
  /\ mlast.follows_put
  /\ mlast.rehash
  /\ map_load(map) = 1

\* C10: a rehash makes 2 * C slots and keeps exactly the entries: each key
\* is present after it iff it was before, with the same value, and the load
\* is unchanged; the put it is part of changes only its own key; after
\* every put the keys present are those a dictionary would hold, with its
\* values, and the load is their number.
C10_RehashDoublesAndKeeps ==
  [][ mlast'.op = "put"
        => LET r == maintain_load_factor(map)
               before == [k \in Keys |-> map_get(map, k)]
               between == [k \in Keys |-> map_get(r, k)]
               after == [k \in Keys |-> map_get(map', k)]
               present == { k \in Keys : after[k].key # NULL }
           IN  /\ NeedsRehash(map)
                 => /\ r.__size = 2 * map.__size
                    /\ r.elements.length = 2 * map.elements.length
                    /\ map_load(r) = map_load(map)
                    /\ \A k \in Keys :
                         /\ between[k].key = before[k].key
                         /\ between[k].value = before[k].value
                    /\ map'.__size = 2 * map.__size
                    /\ \A k \in Keys \ {mlast'.key} :
                         /\ after[k].key = before[k].key
                         /\ after[k].value = before[k].value
               /\ ~NeedsRehash(map) => map'.__size = map.__size
               /\ present = DOMAIN expect'
               /\ \A k \in present : after[k].value = expect'[k]
               /\ map_load(map') = Cardinality(present)
    ]_vars

\* C10 witness: a put has just rehashed a table of three entries to MaxCap
\* slots, and all the keys are present.
C10_Witness ==
  /\ mlast.op = "put"
  /\ mlast.rehash
  /\ map.__size = MaxCap
  /\ Present(map) = Keys

\* C11: between operations the number of slots in use is at most
\* floor(0.75 * C), C the table's slot count, whatever the initial size.
C11_LoadWithinLimit ==
  map.slots_in_use <= (3 * map.__size) \div 4

--------------------------------------------------------------------------
(* The sequence (src/src/vector.c) over elements of IntBytes bytes. The   *)
(* buffer is held in place in the record: elements[i + 1] is the element  *)
(* lookup_el(v, i) points to, for 0 <= i < __size.                        *)

MaxVecCap == 4
MaxVecUnder == 2

\* the values pushed and put; 0 is what a zeroed element holds
Elems == {1, 2}
ElemVals == {0} \cup Elems

\* lookup_el(v, pos) points into the buffer
InBuffer(v, pos) == pos >= 0 /\ pos < v.__size

\* bound_asserts(v, pos)
bound_asserts(v, pos) == pos >= 0 /\ pos < v.length

\* vec_at(v, pos), the bound assertion holding
vec_at(v, pos) == v.elements[pos + 1]

\* vec_put(v, pos, el)
vec_put(v, pos, el) == [v EXCEPT !.elements[pos + 1] = el]

\* vec_push(v, el): a write outside the buffer leaves the buffer as it is
vec_push(v, el) ==
  LET r == vec_resize(v, v.length)
      top == r.__top + 1
  IN  [r EXCEPT !.elements = IF InBuffer(r, r.__top)
                             THEN [r.elements EXCEPT ![r.__top + 1] = el]
                             ELSE r.elements,
                !.__top = top,
                !.length = IF top >= r.length THEN top ELSE r.length]

\* vec_pop(v), the assertion on __top holding
vec_pop(v) ==
  [v EXCEPT !.length = IF v.__top = v.length THEN v.length - 1
                       ELSE v.length,
            !.__top = v.__top - 1]

\* vec_top(v), the element before the cursor
vec_top(v) == v.elements[v.__top]

\* vec_delete_at(v, pos), the bound assertion holding
vec_delete_at(v, pos) ==
  IF v.length - 1 = pos THEN vec_pop(v)
  ELSE [v EXCEPT !.elements =
                   [i \in 1..v.__size |->
                      IF i - 1 >= pos /\ i - 1 < v.length - 1
                      THEN v.elements[i + 1] ELSE v.elements[i]],
                 !.length = v.length - 1,
                 !.__top = v.__top - 1]

\* vec_swap(v, idx1, idx2)
vec_swap(v, idx1, idx2) ==
  [v EXCEPT !.elements[idx1 + 1] = v.elements[idx2 + 1],
            !.elements[idx2 + 1] = v.elements[idx1 + 1]]

\* the comparisons given to vec_sort: cmp[a, b] means a precedes b
precedes_up == [a \in ElemVals, b \in ElemVals |-> a < b]
precedes_down == [a \in ElemVals, b \in ElemVals |-> a > b]
Compares == {precedes_up, precedes_down}

\* the inner loop of vec_sort from j on, in pass i
RECURSIVE SortInner(_, _, _, _)
SortInner(v, cmp, i, j) ==
  IF j >= v.length - i - 1 THEN v
  ELSE SortInner(IF ~cmp[vec_at(v, j), vec_at(v, j + 1)]
                 THEN vec_swap(v, j, j + 1) ELSE v,
                 cmp, i, j + 1)

\* the outer loop of vec_sort from pass i on
RECURSIVE SortOuter(_, _, _)
SortOuter(v, cmp, i) ==
  IF i >= v.length THEN v
  ELSE SortOuter(SortInner(v, cmp, i, 0), cmp, i + 1)

\* a vec_sort of one pass only
VecSortOnePass(v, cmp) == SortInner(v, cmp, 0, 0)

\* vec_sort(v, cmp, args)
vec_sort(v, cmp) == SortOuter(v, cmp, 0)

\* the predicates given to vec_count_if and vec_filter
is_mult_10 == [el \in Nat |-> el % 10 = 0]
is_mult_2 == [el \in Nat |-> el % 2 = 0]
is_any == [el \in Nat |-> TRUE]
Preds ==
  { [el \in ElemVals |-> is_mult_10[el]],
    [el \in ElemVals |-> is_mult_2[el]],
    [el \in ElemVals |-> is_any[el]] }

\* vec_count_if(v, p, args): the loop from i on
RECURSIVE CountFrom(_, _, _, _)
CountFrom(v, p, i, count) ==
  IF i >= v.length THEN count
  ELSE CountFrom(v, p, i + 1,
                 IF p[vec_at(v, i)] THEN count + 1 ELSE count)

vec_count_if(v, p) == CountFrom(v, p, 0, 0)

\* the iterations i .. to - 1 of the loop of vec_filter, pushing to the
\* local sequence filter
RECURSIVE FilterUpTo(_, _, _, _, _)
FilterUpTo(v, p, filter, i, to) ==
  IF i >= to THEN filter
  ELSE IF p[vec_at(v, i)]
       THEN FilterUpTo(v, p, vec_push(filter, vec_at(v, i)), i + 1, to)
       ELSE FilterUpTo(v, p, filter, i + 1, to)

\* the loop of vec_filter from index i to the end
FilterFrom(v, p, filter, i) == FilterUpTo(v, p, filter, i, v.length)

\* a vec_filter that passes over the first element
VecFilterAfterFirst(v, p) == FilterFrom(v, p, __vec_init(v.__el_size), 1)

\* vec_filter(v, p, args): the local sequence takes the place of v
vec_filter(v, p) == FilterFrom(v, p, __vec_init(v.__el_size), 0)

\* the fold of the tests: residual + el
adder == [residual \in Int, el \in Int |-> residual + el]

\* vec_foldl(v, b, result, args): the loop from i on
RECURSIVE FoldFrom(_, _, _, _)
FoldFrom(v, b, result, i) ==
  IF i >= v.length THEN result
  ELSE FoldFrom(v, b, b[result, vec_at(v, i)], i + 1)

vec_foldl(v, b, result) == FoldFrom(v, b, result, 0)

--------------------------------------------------------------------------
(* The sequence's operations and its specification: allocator and table   *)
(* are left aside. An operation whose assertion fails ends the run with   *)
(* vstatus "abort"; one that writes outside the buffer ends it with "ub". *)

NoVecOp == [op |-> "init", arg |-> 0, length |-> 0, changed |-> FALSE]

\* the operation just done, its argument, the length before it and
\* whether it changed the sequence
DidVec(op, arg) ==
  [op |-> op, arg |-> arg, length |-> vec.length, changed |-> vec' # vec]

VecRest == <<regions, frames, frame_count, framed_alloc, status, live,
             open_snap, max_region, last, pop_at, opened, map, mlast,
             ever_put,
             expect, bufs, cvec, cmap, clast, gword, threads, allocs>>

VecInit ==
  /\ AllocInit(FrameBytes)
  /\ MapIdle
  /\ CopyIdle
  /\ GuardIdle
  /\ ThreadsIdle
  /\ vec = __vec_init(IntBytes)
  /\ vlast = NoVecOp
  /\ vstatus = "run"

\* vec_resize(v, size)
VecResize ==
  \E size \in 0..MaxVecCap :
    /\ vstatus = "run"
    /\ size >= vec.__size => DoublePast(vec.__size, size) <= MaxVecCap
    /\ vec' = vec_resize(vec, size)
    /\ vlast' = DidVec("resize", size)
    /\ UNCHANGED <<vstatus, VecRest>>

\* vec_clear(v)
VecClear ==
  /\ vstatus = "run"
  /\ vec' = vec_clear(vec)
  /\ vlast' = DidVec("clear", 0)
  /\ UNCHANGED <<vstatus, VecRest>>

\* the positions given to an operation: those in bounds, the one below
\* and the one above
Positions(v) == -1..v.length

\* vec_at(v, pos) and the caller's read of the element
VecAtIndex ==
  \E pos \in Positions(vec) :
    /\ vstatus = "run"
    /\ vstatus' = IF ~bound_asserts(vec, pos) THEN "abort"
                  ELSE IF InBuffer(vec, pos) THEN "run" ELSE "ub"
    /\ vec' = vec
    /\ vlast' = DidVec("at", pos)
    /\ UNCHANGED VecRest

\* vec_put(v, pos, el)
VecPut ==
  \E pos \in Positions(vec), el \in Elems :
    /\ vstatus = "run"
    /\ IF bound_asserts(vec, pos)
       THEN vstatus' = "run" /\ vec' = vec_put(vec, pos, el)
       ELSE vstatus' = "abort" /\ vec' = vec
    /\ vlast' = DidVec("put", pos)
    /\ UNCHANGED VecRest

\* vec_push(v, el)
VecPush ==
  \E el \in Elems :
    /\ vstatus = "run"
    /\ vec.length >= vec.__size
         => DoublePast(vec.__size, vec.length) <= MaxVecCap
    /\ vec' = vec_push(vec, el)
    /\ vstatus' = IF InBuffer(vec_resize(vec, vec.length), vec.__top)
                  THEN "run" ELSE "ub"
    /\ vlast' = DidVec("push", el)
    /\ UNCHANGED VecRest

\* vec_pop(v): assert(v->__top)
VecPop ==
  /\ vstatus = "run"
  /\ vec.__top > -MaxVecUnder
  /\ IF vec.__top = 0
     THEN vstatus' = "abort" /\ vec' = vec
     ELSE vstatus' = "run" /\ vec' = vec_pop(vec)
  /\ vlast' = DidVec("pop", 0)
  /\ UNCHANGED VecRest

\* vec_top(v) and the caller's read of the element: no assertion on __top,
\* and with __top at 0 the pointer returned is before the buffer
VecTop ==
  /\ vstatus = "run"
  /\ vstatus' = IF InBuffer(vec, vec.__top - 1) THEN "run" ELSE "ub"
  /\ vec' = vec
  /\ vlast' = DidVec("top", 0)
  /\ UNCHANGED VecRest

\* vec_swap(v, idx1, idx2): vec_at asserts each index in turn
VecSwap ==
  \E idx1 \in Positions(vec), idx2 \in Positions(vec) :
    /\ vstatus = "run"
    /\ IF bound_asserts(vec, idx1) /\ bound_asserts(vec, idx2)
       THEN vstatus' = "run" /\ vec' = vec_swap(vec, idx1, idx2)
       ELSE vstatus' = "abort" /\ vec' = vec
    /\ vlast' = DidVec("swap", <<idx1, idx2>>)
    /\ UNCHANGED VecRest

\* vec_copy(v, src) and vec_copy(dest, v) with the other sequence a struct
\* vec nothing was stored in: init_asserts reads its elements field, which
\* holds whatever the memory held, NULL (the assertion fails) or not (the
\* call goes on with the fields it finds)
VecCopyUninit ==
  \E elements \in {"NULL", "other"} :
    /\ vstatus = "run"
    /\ vstatus' = IF elements = "NULL" THEN "abort" ELSE "ub"
    /\ vec' = vec
    /\ vlast' = DidVec("copy", 0)
    /\ UNCHANGED VecRest

\* vec_delete_at(v, pos); deleting the last element is vec_pop with its
\* assertion
VecDeleteAt ==
  \E pos \in Positions(vec) :
    /\ vstatus = "run"
    /\ vec.__top > -MaxVecUnder
    /\ IF ~bound_asserts(vec, pos) \/ (vec.length - 1 = pos /\ vec.__top = 0)
       THEN vstatus' = "abort" /\ vec' = vec
       ELSE vstatus' = "run" /\ vec' = vec_delete_at(vec, pos)
    /\ vlast' = DidVec("delete_at", pos)
    /\ UNCHANGED VecRest

\* vec_sort(v, cmp, args)
VecSort ==
  \E cmp \in Compares :
    /\ vstatus = "run"
    /\ vec' = vec_sort(vec, cmp)
    /\ vlast' = DidVec("sort", cmp)
    /\ UNCHANGED <<vstatus, VecRest>>

\* vec_filter(v, p, args)
VecFilter ==
  \E p \in Preds :
    /\ vstatus = "run"
    /\ vec' = vec_filter(vec, p)
    /\ vlast' = DidVec("filter", p)
    /\ UNCHANGED <<vstatus, VecRest>>

VecNext ==
  \/ VecResize
  \/ VecClear
  \/ VecAtIndex
  \/ VecPut
  \/ VecTop
  \/ VecSwap
  \/ VecCopyUninit
  \/ VecPush
  \/ VecPop
  \/ VecDeleteAt
  \/ VecSort
  \/ VecFilter

SpecVec == VecInit /\ [][VecNext]_vars

--------------------------------------------------------------------------
(* Properties of the sequence *)

\* C12: in every state the sequence can be in, after resize to a larger or
\* smaller length, clear and delete_at too, push(x) makes top() the element
\* x (where the cursor is inside the buffer), and a pop right after the
\* push leaves the length what it was before the push.
C12_PushPopDuality ==
  [][ /\ (vlast'.op = "push" /\ vstatus' = "run")
        => vec_top(vec') = vlast'.arg
      /\ (vlast.op = "push" /\ vlast'.op = "pop" /\ vstatus' = "run")
        => vec'.length = vlast.length
    ]_vars

\* C15: delete_at(i) with 0 <= i < L, in every state the sequence can be
\* in (after a resize that set L without pushes too), does not abort,
\* lowers L by exactly 1, leaves the elements below i as they are and moves
\* every element above i down by one.
C15_DeleteAtRemovesOne ==
  [][ (vlast'.op = "delete_at" /\ bound_asserts(vec, vlast'.arg))
        => LET pos == vlast'.arg
           IN  /\ vstatus' = "run"
               /\ vec'.length = vec.length - 1
               /\ \A j \in 0..(pos - 1) : vec_at(vec', j) = vec_at(vec, j)
               /\ \A j \in (pos + 1)..(vec.length - 1) :
                    vec_at(vec', j - 1) = vec_at(vec, j)
    ]_vars

\* C21: a call that breaks its precondition ends in a failed assertion and
\* so neither reads nor writes outside the buffer: at, put and delete_at
\* with an index outside 0 <= i < L, swap with either index outside, pop
\* and top with the cursor at 0, and copy to or from a sequence that was
\* never initialised.
C21_MisuseAborts ==
  [][ /\ (/\ vlast'.op \in {"at", "put", "delete_at"}
          /\ ~bound_asserts(vec, vlast'.arg))
        => vstatus' = "abort"
      /\ (/\ vlast'.op = "swap"
          /\ \/ ~bound_asserts(vec, vlast'.arg[1])
             \/ ~bound_asserts(vec, vlast'.arg[2]))
        => vstatus' = "abort"
      /\ (vlast'.op \in {"pop", "top"} /\ vec.__top = 0)
        => vstatus' = "abort"
      /\ vlast'.op = "copy"
        => vstatus' = "abort"
    ]_vars

\* the elements 0 .. n - 1 of v, in order
FirstOf(v, n) == [i \in 1..n |-> v.elements[i]]

\* the sum of the elements of a list
RECURSIVE SumOf(_)
SumOf(list) ==
  IF Len(list) = 0 THEN 0 ELSE list[1] + SumOf(Tail(list))

\* the sequence after pushing from, from + 1, .., to onto v
RECURSIVE PushRange(_, _, _)
PushRange(v, from, to) ==
  IF from > to THEN v ELSE PushRange(vec_push(v, from), from + 1, to)

\* what pushing 0, 1, .., to onto a fresh sequence leaves: to + 1 elements
\* in a buffer doubled past to
Pushed(to) ==
  [ length |-> to + 1,
    __top |-> to + 1,
    __size |-> DoublePast(1, to),
    __el_size |-> IntBytes,
    elements |-> [i \in 1..DoublePast(1, to) |->
                    IF i <= to + 1 THEN i - 1 ELSE 0] ]

\* pushing 0 .. 20 one by one gives Pushed(20)
PushedAsBuilt == PushRange(__vec_init(IntBytes), 0, 20) = Pushed(20)

\* the tests' sequences: 0 .. 20 and 0 .. 99 filtered by multiple-of-10,
\* the hundred iterations of the second taken 25 at a time
FilteredTo20 == vec_filter(Pushed(20), is_mult_10)
FilteredTo24 ==
  FilterUpTo(Pushed(99), is_mult_10, __vec_init(IntBytes), 0, 25)
FilteredTo49 == FilterUpTo(Pushed(99), is_mult_10, FilteredTo24, 25, 50)
FilteredTo74 == FilterUpTo(Pushed(99), is_mult_10, FilteredTo49, 50, 75)
FilteredTo99 == FilterUpTo(Pushed(99), is_mult_10, FilteredTo74, 75, 100)

\* the tests' fold of them with +
FilteredSumTo20 == vec_foldl(FilteredTo20, adder, 0)
FilteredSumTo99 == vec_foldl(FilteredTo99, adder, 0)

\* C16: filter(p) leaves exactly the elements among the first L that
\* satisfy p, in their order: the new length is count_if(p) taken before
\* the call, a left fold with + over the result is the sum of the matching
\* elements, and 0..99 (0..20) filtered by multiple-of-10 and summed gives
\* 450 (30).
C16_FilterKeepsMatching ==
  [][ vlast'.op = "filter"
        => LET p == vlast'.arg
               matching == SelectSeq(FirstOf(vec, vec.length),
                                     LAMBDA el : p[el])
           IN  /\ vstatus' = "run"
               /\ vec'.length = vec_count_if(vec, p)
               /\ FirstOf(vec', vec'.length) = matching
               /\ vec_foldl(vec', adder, 0) = SumOf(matching)
               /\ PushedAsBuilt
               /\ FilteredSumTo20 = 30
               /\ FilteredSumTo99 = 450
    ]_vars

\* C16 witness: a filter has just dropped elements from between the ones
\* it kept, in a sequence whose length had been set by resize.
C16_Witness ==
  /\ vlast.op = "filter"
  /\ vlast.length = MaxVecCap - 1
  /\ vec.length = 2
  /\ vec_at(vec, 0) # vec_at(vec, 1)

\* how many of the first n elements of v equal el
CountOf(v, n, el) == Cardinality({ i \in 1..n : v.elements[i] = el })

\* C17: sort(cmp) leaves the first L elements a permutation of what they
\* were, no element preceding its left neighbour (each preceding its right
\* neighbour when the keys are pairwise distinct); L, the capacity and the
\* elements beyond L are unchanged, and so is a sequence of length 0 or 1.
C17_SortOrders ==
  [][ vlast'.op = "sort"
        => LET cmp == vlast'.arg
               L == vec.length
               distinct == \A i, j \in 0..(L - 1) :
                             i # j => vec_at(vec, i) # vec_at(vec, j)
           IN  /\ vstatus' = "run"
               /\ vec'.length = L
               /\ vec'.__size = vec.__size
               /\ vec'.__top = vec.__top
               /\ \A i \in (L + 1)..vec.__size :
                    vec'.elements[i] = vec.elements[i]
               /\ \A el \in ElemVals : CountOf(vec', L, el) = CountOf(vec, L, el)
               /\ \A i \in 0..(L - 2) :
                    /\ ~cmp[vec_at(vec', i + 1), vec_at(vec', i)]
                    /\ distinct => cmp[vec_at(vec', i), vec_at(vec', i + 1)]
               /\ L <= 1 => vec' = vec
    ]_vars

\* C17 witness: a sort has just reordered three pairwise distinct elements
\* and an element lies beyond the length.
C17_Witness ==
  /\ vlast.op = "sort"
  /\ vlast.changed
  /\ vec.length = MaxVecCap - 1
  /\ \A i, j \in 0..(vec.length - 1) :
       i # j => vec_at(vec, i) # vec_at(vec, j)
  /\ vec.elements[vec.length + 1] # 0

\* a sequence of capacity 16 after 24 pushes
Pushed24 == PushRange(vec_clear(vec_resize(__vec_init(IntBytes), 8)), 0, 23)

\* cap is from doubled a number of times
RECURSIVE IsDoubling(_, _)
IsDoubling(from, cap) ==
  IF cap <= from THEN cap = from ELSE IsDoubling(from * 2, cap)

\* C18: after every operation 0 <= L <= C; resize and push change the
\* capacity by doubling only, and exactly when the length asked for
\* reaches the capacity; the elements below the old length keep their
\* values across a growth; a sequence of capacity 16 given 24 pushes ends
\* with length 24 and capacity 32.
C18_LengthWithinCapacity ==
  [][ /\ 0 <= vec'.length
      /\ vec'.length <= vec'.__size
      /\ vlast'.op \in {"resize", "push"}
           => LET asked == IF vlast'.op = "resize" THEN vlast'.arg
                           ELSE vec.length
              IN  /\ IsDoubling(vec.__size, vec'.__size)
                  /\ vec'.__size # vec.__size <=> asked >= vec.__size
                  /\ vec'.__size # vec.__size
                       => \A i \in 0..(vec.length - 1) :
                            (vlast'.op = "push" /\ i = vec.__top)
                              \/ vec_at(vec', i) = vec_at(vec, i)
      /\ Pushed24.length = 24
      /\ Pushed24.__size = 32
    ]_vars

--------------------------------------------------------------------------
(* Further properties of the hash table *)

\* C19: clear advances the generation by exactly one, sets the load to 0
\* and keeps the slot count; after it has(K) is false for every key, the
\* ones present before included, and a put right after it makes its key
\* present with its value.
C19_ClearEmptiesTable ==
  [][ /\ mlast'.op = "clear"
        => /\ map'.in_use_id = map.in_use_id + 1
           /\ map_load(map') = 0
           /\ map'.__size = map.__size
           /\ map'.elements.length = map.elements.length
           /\ \A k \in Keys : ~map_has(map', k)
      /\ (mlast.op = "clear" /\ mlast'.op = "put")
        => /\ map_has(map', mlast'.key)
           /\ map_get(map', mlast'.key).value = mlast'.value
           /\ map_load(map') = 1
    ]_vars

\* C19 witness: a table grown by a rehash and holding every key has just
\* been cleared, and not for the first time.
C19_Witness ==
  /\ mlast.op = "clear"
  /\ mlast.value = Cardinality(Keys)
  /\ map.__size = MaxCap
  /\ map.in_use_id = MaxGen

--------------------------------------------------------------------------
(* Further properties of the allocator *)

\* C20: every payload a push returns lies at a multiple of 8 bytes from
\* the base of its region (itself 8-aligned, from calloc), whatever was
\* pushed and popped before, and the total size stored in the guard is
\* what the cursor advanced by, padding included, so that a pop restores
\* the cursor.
C20_PushAligned ==
  [][ (last' = "push" /\ frame_count > 0 /\ status' = "run")
        => LET b == live'[Len(live')]
               t == regions'[1]
               before == IF t.base = regions[1].base
                         THEN regions[1].stack_ptr ELSE 0
           IN  /\ b.off % 8 = 0
               /\ BLOCK_SIZE(ReadGuard(t.mem, t.stack_ptr - FOOTER_SIZE))
                    = t.stack_ptr - before
    ]_vars

--------------------------------------------------------------------------
(* Sequences and tables whose buffer is an address: bufs[a] is the buffer *)
(* at address a, and the elements field of a struct vec is an address.    *)
(* A buffer nothing points to any more (an abandoned stack block, a       *)
(* leaked heap block) plays no further part and is left out of bufs.      *)

MaxBufs == 3
MaxCopyCap == 2

Addrs == 1..MaxBufs
Names == {"src", "dest"}
Places == {TO_STACK, TO_HEAP}

\* an address with no buffer (never allocated, or freed)
NoBuf == [live |-> FALSE, data |-> << >>]

\* the addresses an allocation may return
FreeAddrs(b) == { a \in Addrs : ~b[a].live }

\* vec_alloc(v, bytes) returning address a: __size zeroed elements, from
\* calloc (TO_HEAP) or from __stpush (TO_STACK)
vec_alloc(b, v, a) ==
  [b EXCEPT ![a] = [live |-> TRUE,
                    data |-> [i \in 1..v.__size |-> ZeroEl(v.__el_size)]]]

\* vec_free(v): hfree for TO_HEAP, nothing for TO_STACK
vec_free(b, v) ==
  IF v.flags = TO_HEAP THEN [b EXCEPT ![v.elements] = NoBuf] ELSE b

\* the sequence v with its buffer held in place
Held(b, v) == [v EXCEPT !.elements = b[v.elements].data]

\* bufs without the buffers none of the sequences vs points to
Referenced(b, vs) ==
  [a \in Addrs |-> IF \E v \in vs : v.elements = a THEN b[a] ELSE NoBuf]

\* the outcome of an operation on v that left the sequence w (buffer in
\* place): in the same buffer, or, when vec_resize grew it, in a new one
\* at address a, the old one freed if TO_HEAP
Placed(b, v, w, a) ==
  IF w.__size = v.__size
  THEN [bufs |-> [b EXCEPT ![v.elements].data = w.elements],
        vec |-> [w EXCEPT !.elements = v.elements]]
  ELSE [bufs |-> [vec_free(b, v) EXCEPT
                    ![a] = [live |-> TRUE, data |-> w.elements]],
        vec |-> [w EXCEPT !.elements = a]]

\* vec_copy(dest, src), vec_alloc returning address a: dest's buffer is
\* freed, src's fields are copied, and the new buffer is filled from what
\* src->elements points to; reading a freed buffer is undefined
vec_copy(b, dest, src, a) ==
  LET copy == [src EXCEPT !.elements = a]
      b2 == vec_alloc(vec_free(b, dest), copy, a)
      from == b2[src.elements]
  IN  [bufs |-> IF from.live THEN [b2 EXCEPT ![a].data = from.data] ELSE b2,
       vec |-> copy,
       ub |-> ~from.live]

--------------------------------------------------------------------------
(* Two sequences "src" and "dest" of struct group elements, each made in  *)
(* either placement, and vec_copy between them. A push that writes past   *)
(* the end of its buffer (status "ub") lands where the layout puts it: on *)
(* nothing a sequence holds, or, on the stack, on the footer of its own   *)
(* block, the header of the next block and the first 8 bytes of that      *)
(* block's payload, the first element of the other sequence's buffer.     *)

GroupBytes == 16

\* the value pushed and put; 0 is what a zeroed element holds
CopyElems == {1}

\* an element whose first 8 bytes were overwritten by the end of another
Clobbered == 2

Other(w) == IF w = "src" THEN "dest" ELSE "src"

\* the operation just done on sequence or table w; copied: a copy has
\* been made and no resize has followed it
DidCopy(op, w, st, copied) ==
  [op |-> op, on |-> w, status |-> st, copied |-> copied]

CopyRest == <<regions, frames, frame_count, framed_alloc, status, live,
              open_snap, max_region, last, pop_at, opened, map, mlast,
             ever_put,
              expect, vec, vlast, vstatus, gword, threads, allocs>>

\* __vec_init(v, el_size, alloc, flags) with vec_alloc returning address a
VecAt(flags, a) ==
  [length |-> vec_construct.length,
   __top |-> vec_construct.__top,
   __size |-> vec_construct.__size,
   __el_size |-> GroupBytes,
   flags |-> flags,
   elements |-> a]

VecCopyInit ==
  /\ AllocInit(FrameBytes)
  /\ MapIdle
  /\ VecIdle
  /\ GuardIdle
  /\ ThreadsIdle
  /\ \E fs \in Places, fd \in Places :
       /\ cvec = [w \in Names |-> IF w = "src" THEN VecAt(fs, 1)
                                  ELSE VecAt(fd, 2)]
       /\ bufs = vec_alloc(vec_alloc([a \in Addrs |-> NoBuf],
                                     VecAt(fs, 1), 1),
                           VecAt(fd, 2), 2)
  /\ cmap = << >>
  /\ clast = DidCopy("init", "src", "run", FALSE)

\* the step of an operation on sequence w that leaves res (buffer in
\* place), vec_alloc returning a when it grew the buffer; hit: the address
\* of the buffer a write outside w's buffer landed on, or 0
VecStep(w, op, res, a, st, hit) ==
  LET out == Placed(bufs, cvec[w], res, a)
      vs == [cvec EXCEPT ![w] = out.vec]
      b == IF hit = 0 THEN out.bufs
           ELSE [out.bufs EXCEPT ![hit].data[1] = Clobbered]
  IN  /\ cvec' = vs
      /\ bufs' = Referenced(b, {vs[n] : n \in Names})
      /\ clast' = DidCopy(op, w, st, clast.copied /\ op # "resize")
      /\ UNCHANGED <<cmap, CopyRest>>

\* the addresses vec_alloc may return when res has another capacity than v
NewAddrs(v, res) ==
  IF res.__size # v.__size THEN FreeAddrs(bufs) ELSE {0}

CopyResize ==
  \E w \in Names, size \in 0..MaxCopyCap :
    LET v == Held(bufs, cvec[w])
        res == vec_resize(v, size)
    IN  /\ clast.status = "run"
        /\ res.__size <= MaxCopyCap
        /\ \E a \in NewAddrs(v, res) :
             VecStep(w, "resize", res, a, "run", 0)

CopyClear ==
  \E w \in Names :
    /\ clast.status = "run"
    /\ VecStep(w, "clear", vec_clear(Held(bufs, cvec[w])), 0, "run", 0)

CopyPut ==
  \E w \in Names, el \in CopyElems :
    \E pos \in 0..(cvec[w].length - 1) :
      /\ clast.status = "run"
      /\ VecStep(w, "put", vec_put(Held(bufs, cvec[w]), pos, el), 0,
                 "run", 0)

\* the buffers a write past the end of w's buffer can land on: the one of
\* the other sequence when both are blocks of the stack
Neighbours(w) ==
  IF cvec[w].flags = TO_STACK /\ cvec[Other(w)].flags = TO_STACK
  THEN {cvec[Other(w)].elements} ELSE {}

CopyPush ==
  \E w \in Names, el \in CopyElems :
    LET v == Held(bufs, cvec[w])
        res == vec_push(v, el)
        inside == InBuffer(vec_resize(v, v.length), v.__top)
    IN  /\ clast.status = "run"
        /\ res.__size <= MaxCopyCap
        /\ \E a \in NewAddrs(v, res) :
             \E hit \in (IF inside THEN {0} ELSE {0} \cup Neighbours(w)) :
               VecStep(w, "push", res, a,
                       IF inside THEN "run" ELSE "ub", hit)

CopyPop ==
  \E w \in Names :
    LET v == Held(bufs, cvec[w])
    IN  /\ clast.status = "run"
        /\ v.__top > -MaxVecUnder
        /\ IF v.__top = 0
           THEN VecStep(w, "pop", v, 0, "abort", 0)
           ELSE VecStep(w, "pop", vec_pop(v), 0, "run", 0)

CopyDeleteAt ==
  \E w \in Names :
    \E pos \in 0..(cvec[w].length - 1) :
      LET v == Held(bufs, cvec[w])
      IN  /\ clast.status = "run"
          /\ v.__top > -MaxVecUnder
          /\ IF v.length - 1 = pos /\ v.__top = 0
             THEN VecStep(w, "delete_at", v, 0, "abort", 0)
             ELSE VecStep(w, "delete_at", vec_delete_at(v, pos), 0,
                          "run", 0)

\* vec_copy(dest, src) in either direction
CopyVecCopy ==
  \E dest \in Names :
    /\ clast.status = "run"
    /\ \E a \in FreeAddrs(vec_free(bufs, cvec[dest])) :
         LET out == vec_copy(bufs, cvec[dest], cvec[Other(dest)], a)
             vs == [cvec EXCEPT ![dest] = out.vec]
         IN  /\ cvec' = vs
             /\ bufs' = Referenced(out.bufs, {vs[n] : n \in Names})
             /\ clast' = DidCopy("copy", dest,
                                 IF out.ub THEN "ub" ELSE "run", TRUE)
             /\ UNCHANGED <<cmap, CopyRest>>

VecCopyNext ==
  \/ CopyResize
  \/ CopyClear
  \/ CopyPut
  \/ CopyPush
  \/ CopyPop
  \/ CopyDeleteAt
  \/ CopyVecCopy

SpecVecCopy == VecCopyInit /\ [][VecCopyNext]_vars

\* C13: after copy(dst, src) dst has src's length and element values in a
\* buffer of its own, both buffers allocated; from then on a put, push,
\* pop, clear or delete_at on either sequence changes no element and not
\* the length of the other.
C13_CopyIndependence ==
  [][ /\ clast'.op = "copy"
        => LET dst == clast'.on
               src == Other(clast'.on)
           IN  /\ clast'.status = "run"
               /\ cvec'[dst].elements # cvec'[src].elements
               /\ bufs'[cvec'[dst].elements].live
               /\ bufs'[cvec'[src].elements].live
               /\ cvec'[dst].length = cvec[src].length
               /\ Held(bufs', cvec'[dst]).elements
                    = Held(bufs, cvec[src]).elements
               /\ Held(bufs', cvec'[src]) = Held(bufs, cvec[src])
      /\ (/\ clast.copied
          /\ clast'.op \in {"put", "push", "pop", "clear", "delete_at"})
        => LET o == Other(clast'.on)
           IN  /\ cvec'[o].length = cvec[o].length
               /\ FirstOf(Held(bufs', cvec'[o]), cvec'[o].length)
                    = FirstOf(Held(bufs, cvec[o]), cvec[o].length)
    ]_vars

--------------------------------------------------------------------------
(* Two tables "src" and "dest": src is made in either placement, dest is  *)
(* a struct map not yet initialised, and map_copy copies one to the other *)

\* the initial_size values, the keys and the value of the two tables
CopyMapSizes == {SmallMap, RoomyMap}
CopyKeys == Keys
CopyVals == {1}

\* a struct map nothing has been stored in yet
NoMap == [made |-> FALSE]

Made(m) == "flags" \in DOMAIN m

\* the address in m->elements.elements
BufOf(m) == m.elements.elements

\* the table m with its buffer held in place
HeldMap(b, m) == [m EXCEPT !.elements.elements = b[BufOf(m)].data]

\* the struct vec m->elements, made with the table's flags
VecOf(m) ==
  [length |-> m.elements.length,
   __top |-> m.elements.__top,
   __size |-> m.elements.__size,
   __el_size |-> m.elements.__el_size,
   flags |-> m.flags,
   elements |-> m.elements.elements]

\* the table m with the fields of the struct vec v as m->elements
WithVec(m, v) ==
  [m EXCEPT !.elements = [length |-> v.length,
                          __top |-> v.__top,
                          __size |-> v.__size,
                          __el_size |-> v.__el_size,
                          elements |-> v.elements]]

\* the tables made so far
Tables(ms) == { ms[n] : n \in { w \in Names : Made(ms[w]) } }

\* bufs without the buffers none of the tables ms points to
ReferencedBy(b, ms) ==
  [a \in Addrs |-> IF \E m \in Tables(ms) : BufOf(m) = a THEN b[a]
                   ELSE NoBuf]

\* map_copy(dest, src), vec_alloc returning address a: memmove makes dest
\* the fields of src, the address of src's buffer included, and vec_copy
\* copies src's sequence to dest's
map_copy(b, src, a) ==
  LET dest == src
      out == vec_copy(b, VecOf(dest), VecOf(src), a)
  IN  [bufs |-> out.bufs, map |-> WithVec(dest, out.vec), ub |-> out.ub]

MapCopyInit ==
  /\ AllocInit(FrameBytes)
  /\ MapIdle
  /\ VecIdle
  /\ GuardIdle
  /\ ThreadsIdle
  /\ cvec = << >>
  /\ \E flags \in Places, initial_size \in CopyMapSizes :
       LET m == __map_init(flags, initial_size)
       IN  /\ cmap = [w \in Names |->
                        IF w = "src" THEN [m EXCEPT !.elements.elements = 1]
                        ELSE NoMap]
           /\ bufs = [a \in Addrs |->
                        IF a = 1
                        THEN [live |-> TRUE, data |-> m.elements.elements]
                        ELSE NoBuf]
  /\ clast = DidCopy("init", "src", "run", FALSE)

\* map_put(m, key, value) on table w; a rehash puts the new table's buffer
\* at address a and map_free frees the old one if TO_HEAP; a table whose
\* buffer has been freed is read and written all the same
CopyMapPut ==
  \E w \in Names, key \in CopyKeys, value \in CopyVals :
    /\ clast.status = "run"
    /\ Made(cmap[w])
    /\ IF ~bufs[BufOf(cmap[w])].live
       THEN /\ clast' = DidCopy("put", w, "ub", clast.copied)
            /\ UNCHANGED <<bufs, cmap>>
       ELSE LET m == HeldMap(bufs, cmap[w])
                res == map_put(m, key, value)
            IN  /\ ~m.failed
                /\ NeedsRehash(m) => 2 * m.__size <= MaxCap
                /\ \E a \in (IF res.__size # m.__size THEN FreeAddrs(bufs)
                             ELSE {BufOf(cmap[w])}) :
                     LET b == IF a = BufOf(cmap[w]) THEN bufs
                              ELSE vec_free(bufs, VecOf(cmap[w]))
                         ms == [cmap EXCEPT
                                  ![w] = [res EXCEPT !.elements.elements = a]]
                     IN  /\ cmap' = ms
                         /\ bufs' = ReferencedBy(
                              [b EXCEPT ![a] = [live |-> TRUE,
                                                data |-> res.elements.elements]],
                              ms)
                /\ clast' = DidCopy("put", w, "run", clast.copied)
    /\ UNCHANGED <<cvec, CopyRest>>

\* map_copy(dest, src) in either direction
CopyMapCopy ==
  \E dest \in Names :
    LET src == cmap[Other(dest)]
    IN  /\ clast.status = "run"
        /\ Made(src)
        /\ \E a \in FreeAddrs(vec_free(bufs, VecOf(src))) :
             LET out == map_copy(bufs, src, a)
                 ms == [cmap EXCEPT ![dest] = out.map]
             IN  /\ cmap' = ms
                 /\ bufs' = ReferencedBy(out.bufs, ms)
                 /\ clast' = DidCopy("copy", dest,
                                     IF out.ub THEN "ub" ELSE "run", TRUE)
        /\ UNCHANGED <<cvec, CopyRest>>

MapCopyNext ==
  \/ CopyMapPut
  \/ CopyMapCopy

SpecMapCopy == MapCopyInit /\ [][MapCopyNext]_vars


\* the keys table m holds, and what it holds for them
EntriesOf(b, m) ==
  { <<key, map_get(HeldMap(b, m), key).value>> :
      key \in { k \in CopyKeys : map_has(HeldMap(b, m), k) } }

\* C14: after map_copy(dest, src), src made in either placement, dest and
\* src point to different live buffers holding the same entries, and
\* src's buffer is live and unchanged; from then on a put on one table
\* raises its load by the one entry it adds and leaves the load and the
\* contents of the other table unchanged.
C14_MapCopyIndependence ==
  [][ /\ clast'.op = "copy"
        => LET dest == clast'.on
               src == Other(clast'.on)
           IN  /\ clast'.status = "run"
               /\ BufOf(cmap'[dest]) # BufOf(cmap'[src])
               /\ bufs'[BufOf(cmap'[dest])].live
               /\ bufs'[BufOf(cmap'[src])].live
               /\ EntriesOf(bufs', cmap'[dest]) = EntriesOf(bufs, cmap[src])
               /\ map_load(cmap'[dest]) = map_load(cmap[src])
               /\ cmap'[src] = cmap[src]
               /\ bufs'[BufOf(cmap'[src])] = bufs[BufOf(cmap[src])]
      /\ (clast.copied /\ clast'.op = "put")
        => LET w == clast'.on
               o == Other(clast'.on)
           IN  /\ clast'.status = "run"
               /\ map_load(cmap'[w]) - map_load(cmap[w])
                    = Cardinality(EntriesOf(bufs', cmap'[w]))
                        - Cardinality(EntriesOf(bufs, cmap[w]))
               /\ map_load(cmap'[o]) = map_load(cmap[o])
               /\ HeldMap(bufs', cmap'[o]) = HeldMap(bufs, cmap[o])
    ]_vars


--------------------------------------------------------------------------
(* A guard word on its way: __stpush makes it from the total size of the  *)
(* block and stores it as four bytes, _stpop loads the four bytes behind  *)
(* the cursor and takes the size and the free bit from them.              *)

\* the largest of the small payloads
MaxGuardPayload == 16

\* the total sizes: small blocks, and blocks about 2^28 and 2^29 bytes
GuardSizes ==
  { bytes + HEADER_SIZE + FOOTER_SIZE : bytes \in 1..MaxGuardPayload }
    \cup { Pow28 - 1, Pow28, Pow28 + 9, 2 * Pow28 + 16 }

GuardRest == <<regions, frames, frame_count, framed_alloc, status, live,
               open_snap, max_region, last, pop_at, opened, map, mlast,
             ever_put,
               expect, vec, vlast, vstatus, bufs, cvec, cmap, clast,
               threads, allocs>>

GuardInit ==
  /\ AllocInit(FrameBytes)
  /\ MapIdle /\ VecIdle /\ CopyIdle /\ ThreadsIdle
  /\ \E n \in GuardSizes, s \in {ALLOCATED, FREE} :
       gword = [n |-> n, s |-> s, at |-> "made", mem |-> << 0, 0, 0, 0 >>,
                size |-> 0, free |-> FALSE]

\* uint32_t memory_guard = MAKE_GUARD(n, s); memcpy(stack_ptr, &memory_guard)
GuardStore ==
  /\ gword.at = "made"
  /\ gword' = [gword EXCEPT !.at = "stored",
                            !.mem = GuardBytes(MAKE_GUARD(gword.n, gword.s))]
  /\ UNCHANGED GuardRest

\* BLOCK_SIZE(*(uint32_t *)buff_at(&buff)) and IS_FREE of the same word
GuardLoad ==
  /\ gword.at = "stored"
  /\ gword' = [gword EXCEPT !.at = "loaded",
                            !.size = BLOCK_SIZE(ReadGuard(gword.mem, 0)),
                            !.free = IS_FREE(ReadGuard(gword.mem, 0))]
  /\ UNCHANGED GuardRest

GuardNext ==
  \/ GuardStore
  \/ GuardLoad

SpecGuard == GuardInit /\ [][GuardNext]_vars

\* C22: the size _stpop reads back from a footer is the total size n
\* __stpush made the guard word of, and the free bit read back is the state
\* it was made with, for every n = payload + 8 and both states.
C22_GuardRoundTrip ==
  gword.at = "loaded"
    => /\ gword.size = gword.n
       /\ gword.free = (gword.s = FREE)


--------------------------------------------------------------------------
(* test_concurrent_globals: each thread runs thread_alloc, that is        *)
(* stalloc_create, GFRAME(alloc, function_using_heap()), stalloc_free.    *)
(* framed_alloc is one global of the process, written by GFRAME and read  *)
(* by int_vec_sinit; the steps of the threads interleave.  An allocator   *)
(* is held as its frames and the number of blocks on its stack.           *)

\* the threads, each named as the stalloc it creates
Tids == {"t1", "t2"}

\* the pushes of function_using_heap
HeapPushes == 24

ThreadRest == <<regions, frames, frame_count, status, live, open_snap,
                max_region, last, pop_at, opened, map, mlast, ever_put, expect,
                vec, vlast, vstatus, bufs, cvec, cmap, clast, gword>>

NoAlloc == [state |-> "none", frames |-> << >>, frame_count |-> 0,
            blocks |-> 0]

ThreadsInit ==
  /\ regions = << >>
  /\ frames = << >>
  /\ frame_count = 0
  /\ status = "run"
  /\ live = << >>
  /\ open_snap = NoSnap
  /\ max_region = 0
  /\ last = "none"
  /\ pop_at = 0
  /\ opened = 0
  /\ MapIdle /\ VecIdle /\ CopyIdle /\ GuardIdle
  /\ framed_alloc = "NULL"
  /\ threads = [t \in Tids |->
                  [pc |-> "create", v |-> << >>, allocator |-> "NULL",
                   i |-> 0,
                   status |-> "run", seen |-> << >>]]
  /\ allocs = [t \in Tids |-> NoAlloc]

\* no thread has failed an assertion or run into undefined behaviour
AllRun == \A t \in Tids : threads[t].status = "run"

\* thread t is at pc and the process is running
At(t, pc) == AllRun /\ threads[t].pc = pc

\* __stpush on the stalloc g can do its work: g has not been freed and
\* frames[frame_count - 1] is a record of its frames array
CanPush(g) == allocs[g].state = "made" /\ allocs[g].frame_count > 0

\* allocs after __stpush(g, bytes), the block apart
PushOn(g) ==
  [allocs EXCEPT ![g].frames[allocs[g].frame_count] = @ + 1,
                 ![g].blocks = @ + 1]

\* stalloc *alloc = stalloc_create(128)
ThreadCreate(t) ==
  /\ At(t, "create")
  /\ allocs' = [allocs EXCEPT ![t] = [NoAlloc EXCEPT !.state = "made"]]
  /\ threads' = [threads EXCEPT ![t].pc = "gframe"]
  /\ UNCHANGED <<framed_alloc, ThreadRest>>

\* GFRAME: framed_alloc = alloc
ThreadSetFramed(t) ==
  /\ At(t, "gframe")
  /\ framed_alloc' = t
  /\ threads' = [threads EXCEPT ![t].pc = "start_frame"]
  /\ UNCHANGED <<allocs, ThreadRest>>

\* GFRAME: start_frame(alloc)
ThreadStartFrame(t) ==
  /\ At(t, "start_frame")
  /\ allocs' = [allocs EXCEPT
                  ![t].frames = StartFrames(allocs[t].frames,
                                            allocs[t].frame_count),
                  ![t].frame_count = StartCount(allocs[t].frames,
                                                allocs[t].frame_count)]
  /\ threads' = [threads EXCEPT ![t].pc = "sinit"]
  /\ UNCHANGED <<framed_alloc, ThreadRest>>

\* int_vec_sinit(&v, 16): __vec_init with the allocator framed_alloc names
\* now, and vec_alloc's stpusha on it
ThreadSinit(t) ==
  /\ At(t, "sinit")
  /\ IF CanPush(framed_alloc)
     THEN /\ allocs' = PushOn(framed_alloc)
          /\ threads' = [threads EXCEPT ![t].pc = "push",
                                        ![t].v = __vec_init(IntBytes),
                                        ![t].allocator = framed_alloc]
     ELSE /\ allocs' = allocs
          /\ threads' = [threads EXCEPT ![t].allocator = framed_alloc,
                                        ![t].status = "ub"]
  /\ UNCHANGED <<framed_alloc, ThreadRest>>

\* int_vec_push(&v, &i): vec_resize pushes a new buffer on v->allocator
\* when length has reached the capacity; the element is written into a
\* buffer on the stack of v->allocator
ThreadPush(t) ==
  LET th == threads[t]
      grows == th.v.length >= th.v.__size
  IN  /\ At(t, "push")
      /\ IF (grows /\ ~CanPush(th.allocator))
            \/ allocs[th.allocator].state = "freed"
         THEN /\ allocs' = allocs
              /\ threads' = [threads EXCEPT ![t].status = "ub"]
         ELSE /\ allocs' = IF grows THEN PushOn(th.allocator) ELSE allocs
              /\ threads' = [threads EXCEPT
                               ![t].v = vec_push(th.v, th.i),
                               ![t].i = th.i + 1,
                               ![t].pc = IF th.i + 1 < HeapPushes
                                         THEN "push" ELSE "check"]
      /\ UNCHANGED <<framed_alloc, ThreadRest>>

\* TEST_ASSERT(v.length == 24); TEST_ASSERT(v.__size == 32)
ThreadCheck(t) ==
  /\ At(t, "check")
  /\ threads' = [threads EXCEPT
                   ![t].seen = << threads[t].v.length, threads[t].v.__size >>,
                   ![t].pc = "end_frame"]
  /\ UNCHANGED <<framed_alloc, allocs, ThreadRest>>

\* GFRAME: end_frame(alloc), _stpop taking as many blocks as the counter
\* of the top frame says, while there are blocks
ThreadEndFrame(t) ==
  LET a == allocs[t]
  IN  /\ At(t, "end_frame")
      /\ IF framed_alloc = "NULL" \/ a.frame_count <= 0
         THEN /\ allocs' = allocs
              /\ threads' = [threads EXCEPT ![t].status = "abort"]
         ELSE /\ allocs' = [allocs EXCEPT
                              ![t].blocks =
                                 IF a.frames[a.frame_count] >= a.blocks THEN 0
                                 ELSE a.blocks - a.frames[a.frame_count],
                              ![t].frame_count = a.frame_count - 1]
              /\ threads' = [threads EXCEPT ![t].pc = "free"]
      /\ UNCHANGED <<framed_alloc, ThreadRest>>

\* stalloc_free(alloc)
ThreadFree(t) ==
  /\ At(t, "free")
  /\ allocs' = [allocs EXCEPT ![t].state = "freed"]
  /\ threads' = [threads EXCEPT ![t].pc = "done"]
  /\ UNCHANGED <<framed_alloc, ThreadRest>>

ThreadsNext ==
  \E t \in Tids :
    \/ ThreadCreate(t)
    \/ ThreadSetFramed(t)
    \/ ThreadStartFrame(t)
    \/ ThreadSinit(t)
    \/ ThreadPush(t)
    \/ ThreadCheck(t)
    \/ ThreadEndFrame(t)
    \/ ThreadFree(t)

SpecThreads == ThreadsInit /\ [][ThreadsNext]_vars

\* C23: under every interleaving of the threads, each thread's sequence
\* lives on, and each of its pushes goes to, the allocator that thread
\* created, never one another thread set as framed_alloc or freed; no
\* thread runs into a failed assertion or undefined behaviour; and each
\* thread observes length 24 and capacity 32.
C23_ThreadsKeepToOwn ==
  \A t \in Tids :
    /\ threads[t].status = "run"
    /\ threads[t].allocator \in {"NULL", t}
    /\ threads[t].seen # << >> => threads[t].seen = << HeapPushes, 32 >>


--------------------------------------------------------------------------
(* Properties of the frames and of the region chain *)

\* C24: the frame record every start_frame makes the innermost has counter
\* zero, on a fresh allocator and where the record takes the place in the
\* array that a frame closed earlier at the same depth had.
C24_NewFrameCountsZero ==
  [][ last' = "start_frame" => frames'[frame_count'] = 0 ]_vars


\* the blocks outstanding that were pushed while frame i was the innermost
OwnedBy(blocks, i) ==
  Cardinality({ k \in 1..Len(blocks) : blocks[k].frame = i })

\* C25: a push raises the counter of the innermost open frame by one; an
\* explicit pop, stpopa(alloc) or stpop(), lowers it by the number of
\* blocks the pop reclaimed; and so the counter of every open frame is at
\* least 0 and at most the number of blocks that frame still owns.
C25_CounterFollowsBlocks ==
  [][ /\ (last' = "push" /\ status' = "run")
        => frames'[frame_count] = frames[frame_count] + 1
      /\ (last' \in {"stpopa", "stpop"} /\ status' = "run")
        => frames'[frame_count]
             = frames[frame_count] - (Len(live) - Len(live'))
      /\ \A i \in 1..frame_count' :
           /\ frames'[i] >= 0
           /\ frames'[i] <= OwnedBy(live', i)
    ]_vars


\* C26: the recorded frame count is the number of frames open, the
\* start_frame calls less the end_frame calls that returned, and an
\* end_frame called with no frame open fails its assertion.
C26_DoubleCloseAborts ==
  [][ /\ frame_count' = opened'
      /\ (last' = "end_frame" /\ opened = 0) => status' = "abort"
    ]_vars


--------------------------------------------------------------------------
(* The specification of growth: allocators created with a few bytes, so   *)
(* that a push seldom fits, and pushes of sizes that are not powers of 2  *)

\* stalloc_create is given 1 .. MaxGrowBytes, a push 1 .. MaxGrowPush
\* bytes; the other three as for SpecAlloc
MaxGrowBytes == 2
MaxGrowPush == 3
GrowDepth == 2
GrowRegion == 16
GrowLive == 2

GrowOpenFrame == StartFrame(TRUE, GrowDepth) /\ UNCHANGED nonalloc

GrowPush ==
  \E bytes \in 1..MaxGrowPush :
    StPush(bytes, FALSE, GrowRegion, GrowLive) /\ UNCHANGED nonalloc

GrowNext ==
  \/ GrowOpenFrame
  \/ CloseFrame
  \/ GrowPush
  \/ Pop

GrowInit ==
  /\ \E bytes \in 1..MaxGrowBytes : AllocInit(bytes)
  /\ MapIdle /\ VecIdle /\ CopyIdle /\ GuardIdle /\ ThreadsIdle

SpecGrow == GrowInit /\ [][GrowNext]_vars


\* the block the last push was handed
LastBlock(blocks) == blocks[Len(blocks)]

\* a push of n bytes found no room and its block lies in one new region on
\* top of the chain as it was
PrependedOne(n) ==
  /\ Len(regions') = Len(regions) + 1
  /\ SubSeq(regions', 2, Len(regions')) = regions
  /\ \A i \in 1..Len(regions) : regions[i].base # regions'[1].base
  /\ LastBlock(live').base = regions'[1].base
  /\ LastBlock(live').off = HEADER_SIZE
  /\ regions'[1].stack_ptr = HEADER_SIZE + n + FOOTER_SIZE

\* size is 2 * top doubled no, one or more times
IsDoubleOf(size, top) ==
  \E k \in 0..size : size = 2 * top * (2 ^ k)

\* C27 as the specification words it: a push of n bytes that does not fit
\* in the top region prepends exactly one region, of size
\* max(2 * size of the top region, 2 * n), and is placed in it.
C27_PrependsMaxOfDoubles ==
  [][ (/\ last' = "push"
       /\ status' = "run"
       /\ NeedsRegion(regions, LastBlock(live').n))
        => /\ PrependedOne(LastBlock(live').n)
           /\ regions'[1].region_size
                = Max(2 * regions[1].region_size, 2 * LastBlock(live').n)
    ]_vars

\* C27, amended: a push of n bytes that does not fit in the top region
\* prepends exactly one region and is placed in it; the size of the new
\* region is twice the size of the top region, doubled again until it is
\* at least 2 * n: the least of 2 * top, 4 * top, 8 * top ... that is not
\* below 2 * n, which is max(2 * top, 2 * n) or more.
C27_PrependsLeastDouble ==
  [][ (/\ last' = "push"
       /\ status' = "run"
       /\ NeedsRegion(regions, LastBlock(live').n))
        => LET n == LastBlock(live').n
               top == regions[1].region_size
               size == regions'[1].region_size
           IN  /\ PrependedOne(n)
               /\ IsDoubleOf(size, top)
               /\ size >= 2 * n
               /\ size = 2 * top \/ size \div 2 < 2 * n
               /\ size >= Max(2 * top, 2 * n)
    ]_vars

\* a push of 3 bytes on a fresh allocator of 1 byte has prepended a region
\* of 8 bytes, not of max(2, 6) = 6
C27_Witness ==
  /\ last = "push"
  /\ Len(regions) = 2
  /\ regions[2].region_size = 1
  /\ regions[1].region_size = 8
  /\ Len(live) = 1
  /\ LastBlock(live).n = 3
  /\ LastBlock(live).base = regions[1].base


\* the outstanding blocks that lie in region i of the chain
BlocksIn(regs, blocks, i) ==
  { k \in 1..Len(blocks) : blocks[k].base = regs[i].base }

\* region j is empty once the newest block has been taken from region i
EmptyAfterPop(j, i) ==
  IF j = i THEN Cardinality(BlocksIn(regions, live, i)) = 1
  ELSE regions[j].stack_ptr = 0

\* C28: after a pop, exactly when the top region and its successor are both
\* empty the two are replaced by one empty region whose size is the sum of
\* theirs and whose successor is the old successor's successor, and the call
\* returns; deeper regions are never merged, a step that is not a pop removes
\* no region, and no step reclaims more blocks than it pops.
C28_MergeTopPairAfterPop ==
  [][ /\ (last' = "stpopa" /\ frame_count > 0 /\ Len(live) > 0)
           => LET i == FirstNonEmpty(regions, 1)
                  both == /\ Len(regions) >= 2
                          /\ EmptyAfterPop(1, i)
                          /\ EmptyAfterPop(2, i)
              IN  /\ Len(live') = Len(live) - 1
                  /\ IF both
                     THEN /\ status' = "run"
                          /\ Len(regions') = Len(regions) - 1
                          /\ regions'[1].region_size
                               = regions[1].region_size
                                   + regions[2].region_size
                          /\ regions'[1].stack_ptr = 0
                          /\ \A j \in 1..2 :
                               regions'[1].base # regions[j].base
                          /\ SubSeq(regions', 2, Len(regions'))
                               = SubSeq(regions, 3, Len(regions))
                     ELSE /\ status' = "run"
                          /\ Len(regions') = Len(regions)
                          /\ \A j \in 1..Len(regions) :
                               /\ regions'[j].base = regions[j].base
                               /\ regions'[j].region_size
                                    = regions[j].region_size
                               /\ j # i => regions'[j] = regions[j]
      /\ last' \in {"push", "start_frame", "store"}
           => /\ Len(regions') >= Len(regions)
              /\ Len(live') >= Len(live)
              /\ \A j \in 1..Len(regions) :
                   LET m == j + Len(regions') - Len(regions)
                   IN  /\ regions'[m].base = regions[j].base
                       /\ regions'[m].region_size = regions[j].region_size
      /\ (last' \in {"end_frame", "stpop"} /\ status' = "run")
           => Len(live) - Len(live') <= Max(TopCounter, 0)
    ]_vars


\* C29: every region of every reachable state has its cursor between its
\* base and its heap divider, and the divider within the region's size:
\* base <= stack_ptr <= heap_div_ptr <= base + region_size.
C29_CursorWithinRegion ==
  \A i \in 1..Len(regions) :
    /\ 0 <= regions[i].stack_ptr
    /\ regions[i].stack_ptr <= regions[i].heap_div_ptr
    /\ regions[i].heap_div_ptr <= regions[i].region_size


\* C30: on a freshly created allocator of initial size S with no block
\* outstanding, a single push of n bytes with 1 <= n <= S is placed in the
\* first region: no region is prepended and the chain still has one region.
C30_FirstPushStaysInFirstRegion ==
  [][ ( /\ last \in {"create", "start_frame"}
        /\ Len(live) = 0
        /\ Len(regions) = 1
        /\ regions[1].stack_ptr = 0
        /\ max_region = regions[1].region_size
        /\ last' = "push"
        /\ status' = "run"
        /\ Len(live') = 1
        /\ live'[1].n <= regions[1].region_size )
        => /\ Len(regions') = 1
           /\ regions'[1].base = regions[1].base
           /\ live'[1].base = regions[1].base
    ]_vars


\* the payload bytes of block b as they lie in the chain; empty when no
\* region of the chain has the block's buffer
PayloadIn(regs, b) ==
  LET at == { i \in 1..Len(regs) : regs[i].base = b.base }
  IN  IF at = {} THEN << >>
      ELSE LET r == regs[CHOOSE i \in at : TRUE]
           IN  [k \in 1..b.n |-> r.mem[b.off + k]]

\* blocks is what remains of before when its newest blocks are taken away
IsPrefix(blocks, before) ==
  /\ Len(blocks) <= Len(before)
  /\ blocks = SubSeq(before, 1, Len(blocks))

\* C31: new blocks are placed only in the top region and outstanding blocks
\* are never moved: a push changes the cursor and bytes of the top region
\* only, and while a block is outstanding its payload address stays the same
\* and its payload bytes are changed by no push, pop, region growth or merge.
C31_BlocksStayInPlace ==
  [][ (status' = "run" /\ last' # "store" /\ frame_count > 0)
        => /\ last' = "push"
                => LET d == Len(regions') - Len(regions)
                       b == live'[Len(live')]
                   IN  /\ d \in {0, 1}
                       /\ SubSeq(live', 1, Len(live)) = live
                       /\ Len(live') = Len(live) + 1
                       /\ b.base = regions'[1].base
                       /\ \A j \in 2..Len(regions') : regions'[j] = regions[j - d]
                       /\ d = 0 => /\ regions'[1].base = regions[1].base
                                   /\ b.off = regions[1].stack_ptr + HEADER_SIZE
                                   /\ \A k \in 1..regions[1].stack_ptr :
                                        regions'[1].mem[k] = regions[1].mem[k]
                       /\ d = 1 => regions'[2] = regions[1]
           /\ last' # "push" => IsPrefix(live', live)
           /\ last' = "stpopa" => Len(live') >= Len(live) - 1
           /\ last' \in {"end_frame", "stpop"}
                => Len(live') >= Len(live) - Max(TopCounter, 0)
           /\ \A k \in 1..Len(live') :
                k <= Len(live)
                  => /\ live'[k] = live[k]
                     /\ PayloadIn(regions', live[k]) = PayloadIn(regions, live[k])
                     /\ Len(PayloadIn(regions', live[k])) = live[k].n
    ]_vars

\* C31 witness: a block whose payload the caller has written is still
\* outstanding, in a region below the top, after a later push has prepended
\* a region and a pop has emptied it again.
C31_Witness ==
  /\ status = "run"
  /\ last = "stpopa"
  /\ Len(regions) >= 2
  /\ Len(live) >= 1
  /\ live[1].base # regions[1].base
  /\ PayloadIn(regions, live[1])[1] = 170


\* C32: the generation tag of a table never decreases and a rehash preserves
\* it: a put or a delete, rehashing or not, leaves it as it was and a clear
\* adds one, so that after c clears the generation is 1 + c.
C32_GenerationPreserved ==
  [][ /\ map'.in_use_id >= map.in_use_id
      /\ mlast'.op \in {"put", "del"} => map'.in_use_id = map.in_use_id
      /\ mlast'.op = "clear" => map'.in_use_id = map.in_use_id + 1
    ]_vars


\* C33: put(K, V) deletes an entry of K before it evaluates the load factor
\* and rehashes only if the load after that deletion is at or above the
\* limit; overwriting a key that is present leaves the capacity unchanged
\* when the load without that entry is below the limit.
C33_DeleteBeforeLoadTest ==
  [][ mlast'.op = "put"
        => LET load == IF map_has(map, mlast'.key)
                       THEN map.slots_in_use - 1 ELSE map.slots_in_use
           IN  map'.__size = IF 4 * load >= 3 * map.__size
                             THEN 2 * map.__size ELSE map.__size
    ]_vars


\* C34: the framed-allocator pointer is set exactly for the duration of a
\* top-level global frame: it changes only where a frame is opened or
\* closed, and it is NULL whenever no frame is open, before the first global
\* frame as well as after the global frame's matching close.
C34_FramedPointerCleared ==
  [][ /\ framed_alloc' # framed_alloc
           => last' \in {"start_frame", "end_frame"}
      /\ opened' = 0 => framed_alloc' = "NULL"
    ]_vars


\* C35: start_frame leaves the counters of all frames that are already open
\* unchanged, also when it has to grow the frame array.
C35_OpenKeepsCounters ==
  [][ last' = "start_frame"
        => \A i \in 1..frame_count : frames'[i] = frames[i]
    ]_vars


\* C37: while every operation's own precondition has held, the push cursor
\* of the sequence satisfies 0 <= __top <= __size, and a push never writes
\* an element slot outside the backing buffer.
C37_CursorWithinCapacity ==
  /\ vstatus = "run" => (0 <= vec.__top /\ vec.__top <= vec.__size)
  /\ vlast.op = "push" => vstatus # "ub"


\* the indices of the slots of table m whose state tag is the generation
Occupied(m) ==
  { i \in 0..(m.elements.length - 1) : SlotAt(m, i).state = m.in_use_id }

\* the load counter counts the occupied slots and no key is held twice
TableConsistent(m) ==
  /\ map_load(m) = Cardinality(Occupied(m))
  /\ \A i \in Occupied(m), j \in Occupied(m) :
       SlotAt(m, i).key = SlotAt(m, j).key => i = j

\* C38: in every reachable state of a table, after any puts, rehashes and
\* copies, the load counter equals the number of slots whose state tag is
\* the current generation, and no two occupied slots hold equal keys.
C38_LoadCountsOccupied ==
  \A w \in Names :
    (Made(cmap[w]) /\ bufs[BufOf(cmap[w])].live)
      => TableConsistent(HeldMap(bufs, cmap[w]))


\* C39: for every table made with capacity >= 1 and every sequence of put,
\* delete and clear, the insertion probe of put finds a slot that is not
\* occupied: the assertion that the map is full never fails, and the put
\* leaves its key in the table.
C39_PutIsTotal ==
  [][ mlast'.op = "put"
        => /\ ~map'.failed
           /\ map_has(map', mlast'.key)
           /\ map_get(map', mlast'.key).value = mlast'.value
    ]_vars

\* C39 witness: a put has met a table all of whose slots were occupied, two
\* entries in two slots, and has placed a third entry after the rehash.
C39_Witness ==
  /\ mlast.op = "put"
  /\ mlast.rehash
  /\ ~map.failed
  /\ map.__size = 4
  /\ map_load(map) = 3


\* the occupied slots of table m whose pair satisfies p
Matching(m, p) == { i \in Occupied(m) : p[SlotAt(m, i).value] }

\* C40: find_one(p) returns an occupied entry that satisfies p when at least
\* one exists, and a pair with a null key when no occupied entry satisfies
\* p, also when the table has occupied entries none of which matches.
C40_FindOneOrNull ==
  [][ mlast'.op = "find_one"
        => IF Matching(map, mlast'.p) = {}
           THEN mlast'.key = NULL
           ELSE \E i \in Matching(map, mlast'.p) :
                  /\ mlast'.key = SlotAt(map, i).key
                  /\ mlast'.value = SlotAt(map, i).value
    ]_vars


--------------------------------------------------------------------------
(* A sequence of int elements on the allocator: its buffer is a block of  *)
(* the stack (TO_STACK, stpusha) or a heap block (TO_HEAP, calloc), and   *)
(* frames are opened and closed around its operations. The elements are   *)
(* kept in the record's data; elements is the address of the buffer.      *)

OwnBytes == 32
OwnRegion == 64
OwnDepth == 3
OwnLive == 3
MaxOwnCap == 2

OwnRest == <<map, mlast, ever_put, expect, vstatus, bufs, cvec, cmap, clast,
             gword, threads, allocs>>

NoVec == [made |-> FALSE]

\* the sequence as vector.c sees it, its buffer held in place
View(v) ==
  [length |-> v.length, __top |-> v.__top, __size |-> v.__size,
   __el_size |-> v.__el_size, elements |-> v.data]

HeapBuf == [place |-> TO_HEAP, base |-> 0, off |-> 0]

StackBuf(addr) == [place |-> TO_STACK, base |-> addr[1], off |-> addr[2]]

\* the buffer the sequence points to has not been reclaimed: a heap buffer
\* until it is freed, a stack buffer while its block is outstanding
BufferLive(v) ==
  \/ v.elements.place = TO_HEAP
  \/ \E k \in 1..Len(live) :
       /\ live[k].base = v.elements.base
       /\ live[k].off = v.elements.off

\* the calls of stpusha one operation makes, of sizes[i] bytes from i on:
\* the chain and the blocks they leave, the address the last one returned,
\* and whether every region stayed within OwnRegion
RECURSIVE PushMany(_, _, _)
PushMany(st, sizes, i) ==
  IF i > Len(sizes) THEN st
  ELSE LET bytes == sizes[i]
           addr == PushReturn(st.regs, bytes)
           fits == NeedsRegion(st.regs, bytes)
                     => NextSize(st.regs, bytes) <= OwnRegion
       IN  IF ~fits THEN [st EXCEPT !.ok = FALSE]
           ELSE PushMany([regs |-> PushRegions(st.regs, bytes),
                          blocks |-> Append(st.blocks,
                                       [base |-> addr[1], off |-> addr[2],
                                        n |-> bytes, frame |-> frame_count]),
                          addr |-> addr,
                          ok |-> TRUE],
                         sizes, i + 1)

Pushes(sizes) ==
  PushMany([regs |-> regions, blocks |-> live, addr |-> << 0, 0 >>,
            ok |-> TRUE], sizes, 1)

RECURSIVE BiggestOf(_, _)
BiggestOf(regs, i) ==
  IF i > Len(regs) THEN 0
  ELSE Max(regs[i].region_size, BiggestOf(regs, i + 1))

\* the capacities vec_filter's local sequence goes through: 1, and one
\* doubling for each growth up to the capacity it ends with
RECURSIVE CapsTo(_, _)
CapsTo(cap, last_cap) ==
  IF cap > last_cap THEN << >>
  ELSE << cap >> \o CapsTo(cap * 2, last_cap)

\* one operation of the sequence that pushes blocks of sizes bytes onto the
\* stack and leaves the sequence w: with no frame open the push stores
\* into frames[-1]
OwnStep(op, sizes, w) ==
  /\ status = "run"
  /\ IF sizes # << >> /\ frame_count <= 0
     THEN /\ status' = "ub"
          /\ vec' = vec
          /\ UNCHANGED <<regions, frames, live, max_region>>
     ELSE LET res == Pushes(sizes)
          IN  /\ res.ok
              /\ Len(res.blocks) <= OwnLive
              /\ regions' = res.regs
              /\ live' = res.blocks
              /\ max_region' = Max(max_region, BiggestOf(res.regs, 1))
              /\ frames' = IF sizes = << >> THEN frames
                           ELSE [frames EXCEPT ![frame_count] = @ + Len(sizes)]
              /\ status' = "run"
              /\ vec' = w
  /\ vlast' = op
  /\ last' = IF sizes = << >> THEN last ELSE "push"
  /\ pop_at' = 0
  /\ UNCHANGED <<frame_count, framed_alloc, open_snap, opened, OwnRest>>

\* an operation on a sequence whose buffer has been reclaimed reads and
\* writes memory that is no longer its own
OwnDangling(op) ==
  /\ status = "run"
  /\ status' = "ub"
  /\ vlast' = op
  /\ UNCHANGED <<regions, frames, frame_count, framed_alloc, live, open_snap,
                 max_region, last, pop_at, opened, vec, OwnRest>>

OwnedInit ==
  /\ AllocInit(OwnBytes)
  /\ MapIdle /\ CopyIdle /\ GuardIdle /\ ThreadsIdle
  /\ vec = NoVec
  /\ vlast = "none"
  /\ vstatus = "run"

\* GFRAME's framed_alloc = alloc; start_frame(alloc), and FRAME's
OwnOpenFrame ==
  /\ StartFrame(TRUE, OwnDepth)
  /\ vlast' = "start_frame"
  /\ UNCHANGED <<vec, OwnRest>>

\* end_frame(alloc); the history notes when the frame the sequence was
\* made in is closed
OwnCloseFrame ==
  /\ EndFrame
  /\ vec' = IF vec.made /\ status' = "run" /\ opened <= vec.born
            THEN [vec EXCEPT !.frame_open = FALSE] ELSE vec
  /\ vlast' = "end_frame"
  /\ UNCHANGED OwnRest

\* __vec_init(v, el_size, alloc, flags): sinit and hinit
OwnVecInit ==
  \E flags \in Places :
    /\ ~vec.made
    /\ LET v == __vec_init(IntBytes)
           sizes == IF flags = TO_STACK THEN << v.__size * v.__el_size >>
                    ELSE << >>
       IN  OwnStep("init", sizes,
                   [made |-> TRUE, length |-> v.length, __top |-> v.__top,
                    __size |-> v.__size, __el_size |-> v.__el_size,
                    flags |-> flags, data |-> v.elements,
                    elements |-> IF flags = TO_STACK
                                 THEN StackBuf(Pushes(sizes).addr)
                                 ELSE HeapBuf,
                    placed |-> flags, born |-> opened, frame_open |-> TRUE])

\* vec_push(v, el): vec_resize allocates the larger buffer with vec_alloc
\* and frees the old one if TO_HEAP
OwnVecPush ==
  \E el \in Elems :
    /\ vec.made
    /\ IF ~BufferLive(vec) THEN OwnDangling("push")
       ELSE LET r == vec_push(View(vec), el)
                grew == r.__size # vec.__size
                sizes == IF grew /\ vec.flags = TO_STACK
                         THEN << r.__size * r.__el_size >> ELSE << >>
            IN  /\ r.__size <= MaxOwnCap
                /\ OwnStep("push", sizes,
                           [vec EXCEPT !.length = r.length,
                                       !.__top = r.__top,
                                       !.__size = r.__size,
                                       !.data = r.elements,
                                       !.elements =
                                         IF sizes = << >> THEN @
                                         ELSE StackBuf(Pushes(sizes).addr)])

\* vec_filter(v, p, args): the local sequence is TO_STACK whatever v is;
\* vec_free(v) frees v's buffer if TO_HEAP and the local struct is moved
\* over v
OwnVecFilter ==
  \E p \in Preds :
    /\ vec.made
    /\ IF ~BufferLive(vec) THEN OwnDangling("filter")
       ELSE LET f == vec_filter(View(vec), p)
                sizes == [i \in 1..Len(CapsTo(1, f.__size)) |->
                            CapsTo(1, f.__size)[i] * f.__el_size]
            IN  OwnStep("filter", sizes,
                        [vec EXCEPT !.length = f.length,
                                    !.__top = f.__top,
                                    !.__size = f.__size,
                                    !.data = f.elements,
                                    !.flags = TO_STACK,
                                    !.elements = StackBuf(Pushes(sizes).addr)])

OwnedNext ==
  \/ OwnOpenFrame
  \/ OwnCloseFrame
  \/ OwnVecInit
  \/ OwnVecPush
  \/ OwnVecFilter

SpecOwned == OwnedInit /\ [][OwnedNext]_vars

\* C36: closing a frame never reclaims the backing storage of a live
\* sequence that was made outside that frame: while the frame the sequence
\* was made in is open, whatever growth or filter happened in nested frames
\* that have closed since, the buffer the sequence points to is still
\* outstanding, in either placement.
C36_BufferOutlivesNestedFrames ==
  (vec.made /\ status = "run" /\ vec.frame_open) => BufferLive(vec)

====
